---- MODULE Spec2Model ----
(***************************************************************************)
(* ExeViewer: the event loop of App (src/main.rs), the lazy symbol         *)
(* catalogs SymbolPage (src/symbol.rs) and PLTPage (src/plt.rs), the       *)
(* placeholder EmptyPage (src/empty.rs) and the disassembler               *)
(* decompile_symbol (src/elf.rs).                                          *)
(*                                                                         *)
(* Option<usize> is modelled as a sequence: None is << >>, Some(i) is      *)
(* <<i>>.  A Rust panic (unwrap on None, index out of bounds) moves the    *)
(* program to pc = "panicked" keeping the mutations made before it; no     *)
(* action is enabled afterwards.                                           *)
(*                                                                         *)
(* The List widget of the terminal toolkit is rendered into a non-empty    *)
(* area (a terminal of ordinary size).                                     *)
(*                                                                         *)
(* u64 / usize addresses and sizes are integers read modulo 2^64: a value  *)
(* v >= 0 stands for itself and a value v < 0 stands for 2^64 + v, so that *)
(* values near 0 and values near the top of the 64-bit range are both      *)
(* represented and wrapping arithmetic is ordinary arithmetic.             *)
(* overflow_checks is the build profile: TRUE when arithmetic overflow     *)
(* panics (debug), FALSE when it wraps (release).                          *)
(*                                                                         *)
(* The constructors and the pure functions are exercised on bounded inputs *)
(* by the specification SpecFn, which records one call in probe.           *)
(***************************************************************************)
EXTENDS Integers, Sequences, FiniteSets, TLC

VARIABLES elf, pc, selected_tab, symbol_page, plt_page, section_state,
          deps_state, decompile_calls, pane, overflow_checks, probe

vars == <<elf, pc, selected_tab, symbol_page, plt_page, section_state,
          deps_state, decompile_calls, pane, overflow_checks, probe>>

\* ---------------------------------------------------------------- bounds
\* Largest vertical_scroll the model lets a key press reach.
MaxScroll == 2

\* usize::MAX, the index ListState::select_previous stores when nothing is
\* selected.  Only its being larger than every list length matters; it is
\* represented by the largest integer the checker handles.
USIZE_MAX == 2147483647

\* ------------------------------------------------------------ Option<T>
None == << >>
Some(i) == <<i>>
is_none(o) == o = << >>
is_some(o) == o # << >>
unwrap(o) == o[1]

\* usize::saturating_add(1) / saturating_sub(1)
saturating_add1(i) == IF i = USIZE_MAX THEN USIZE_MAX ELSE i + 1
saturating_sub1(i) == IF i = 0 THEN 0 ELSE i - 1

\* ------------------------------------------------------- u64 arithmetic
\* Unsigned comparison of two u64 values.
u64_lt(a, b) == IF (a >= 0) = (b >= 0) THEN a < b ELSE a >= 0
u64_gt(a, b) == u64_lt(b, a)

\* a + b does not fit in 64 bits.
u64_add_overflows(a, b) ==
    \/ a < 0 /\ b < 0
    \/ (a < 0) # (b < 0) /\ a + b >= 0

\* k * b does not fit in 64 bits, for a count k >= 0.
u64_mul_overflows(k, b) == b < 0 /\ k >= 2

\* format!("{:08X}", a): upper-case hexadecimal, zero-padded to at least 8
\* digits.
HexDigit(d) == SubSeq("0123456789ABCDEF", d + 1, d + 1)

RECURSIVE HexOf(_)
HexOf(n) ==
    IF n < 16 THEN HexDigit(n) ELSE HexOf(n \div 16) \o HexDigit(n % 16)

RECURSIVE PadZeros(_, _)
PadZeros(str, width) ==
    IF Len(str) >= width THEN str ELSE PadZeros("0" \o str, width)

\* The 16 digits of 2^64 - 1 - n.
RECURSIVE HexComplement(_, _)
HexComplement(n, digits) ==
    IF digits = 0 THEN ""
    ELSE HexComplement(n \div 16, digits - 1) \o HexDigit(15 - (n % 16))

format_08X(a) ==
    IF a >= 0 THEN PadZeros(HexOf(a), 8) ELSE HexComplement(-a - 1, 16)

\* ------------------------------------------------------ executable images
\* x86-64 opcode bytes used by the images and the length of the instruction
\* each one starts (nop, ret, int3, jmp rel8, call rel32, jmp [rip+disp32],
\* push imm32, jmp rel32).
InsnLen(b) ==
    CASE b = 144 -> 1
      [] b = 195 -> 1
      [] b = 204 -> 1
      [] b = 235 -> 2
      [] b = 232 -> 5
      [] b = 255 -> 6
      [] b = 104 -> 5
      [] b = 233 -> 5
      [] OTHER -> 1

Mnemonic(b) ==
    CASE b = 144 -> "nop"
      [] b = 195 -> "ret"
      [] b = 204 -> "int3"
      [] b = 235 -> "jmp"
      [] b = 232 -> "call"
      [] b = 255 -> "jmp"
      [] b = 104 -> "push"
      [] b = 233 -> "jmp"
      [] OTHER -> "(bad)"

NoSection == [present |-> FALSE, sh_addr |-> 0, sh_size |-> 0,
              sh_entsize |-> 0, bytes |-> << >>]

Section(addr, entsize, bytes) ==
    [present |-> TRUE, sh_addr |-> addr, sh_size |-> Len(bytes),
     sh_entsize |-> entsize, bytes |-> bytes]

Sym(name, value, size, undef) ==
    [name |-> name, st_value |-> value, st_size |-> size, undefined |-> undef]

\* One PLT slot: jmp [rip+disp32]; push imm32; jmp rel32 (16 bytes).
PltSlot == <<255, 37, 0, 0, 0, 0, 104, 0, 0, 0, 0, 233, 0, 0, 0, 0>>

\* nop; jmp +0; ret; call +0
TextBytes == <<144, 235, 0, 195, 232, 0, 0, 0, 0>>

ImageFull ==
    [has_symtab |-> TRUE,
     has_sections |-> TRUE,
     has_segments |-> TRUE,
     has_dynsym |-> TRUE,
     has_rela_plt |-> TRUE,
     has_dynamic |-> TRUE,
     symtab |-> << Sym("", 0, 0, TRUE),
                   Sym("main", 4096, 4, FALSE),
                   Sym("printf", 0, 0, TRUE),
                   Sym("marker", 4100, 0, FALSE),
                   Sym("far", 8192, 4, FALSE) >>,
     text |-> Section(4096, 0, TextBytes),
     plt |-> Section(4128, 16, PltSlot \o PltSlot \o PltSlot),
     rela_plt |-> <<1, 2>>,
     dynsym |-> <<"", "printf", "malloc">>,
     nsections |-> 2,
     nneeded |-> 1]

ImageStripped ==
    [has_symtab |-> FALSE,
     has_sections |-> TRUE,
     has_segments |-> TRUE,
     has_dynsym |-> TRUE,
     has_rela_plt |-> TRUE,
     has_dynamic |-> FALSE,
     symtab |-> << >>,
     text |-> Section(4096, 0, TextBytes),
     plt |-> Section(4128, 16, PltSlot),
     rela_plt |-> << >>,
     dynsym |-> <<"">>,
     nsections |-> 1,
     nneeded |-> 0]

ImageOnlyUndefined ==
    [has_symtab |-> TRUE,
     has_sections |-> TRUE,
     has_segments |-> TRUE,
     has_dynsym |-> TRUE,
     has_rela_plt |-> TRUE,
     has_dynamic |-> TRUE,
     symtab |-> << Sym("", 0, 0, TRUE), Sym("puts", 0, 0, TRUE) >>,
     text |-> Section(4096, 0, TextBytes),
     plt |-> Section(4128, 0, PltSlot \o PltSlot),
     rela_plt |-> <<1>>,
     dynsym |-> <<"", "puts">>,
     nsections |-> 1,
     nneeded |-> 1]

ImageNoText ==
    [has_symtab |-> TRUE,
     has_sections |-> TRUE,
     has_segments |-> TRUE,
     has_dynsym |-> TRUE,
     has_rela_plt |-> TRUE,
     has_dynamic |-> TRUE,
     symtab |-> << Sym("", 0, 0, TRUE), Sym("start", 4096, 1, FALSE),
                   Sym("tail", 4100, 2, FALSE) >>,
     text |-> NoSection,
     plt |-> Section(4128, 16, PltSlot \o PltSlot),
     rela_plt |-> <<1>>,
     dynsym |-> <<"", "exit">>,
     nsections |-> 1,
     nneeded |-> 0]

ImageTruncated ==
    [has_symtab |-> TRUE,
     has_sections |-> TRUE,
     has_segments |-> TRUE,
     has_dynsym |-> TRUE,
     has_rela_plt |-> TRUE,
     has_dynamic |-> TRUE,
     symtab |-> << Sym("", 0, 0, TRUE), Sym("tail", 4100, 2, FALSE),
                   Sym("whole", 4096, 9, FALSE) >>,
     text |-> Section(4096, 0, TextBytes),
     plt |-> Section(4128, 16, PltSlot \o PltSlot),
     rela_plt |-> <<1>>,
     dynsym |-> <<"", "exit">>,
     nsections |-> 1,
     nneeded |-> 0]

Images == {ImageFull, ImageStripped, ImageOnlyUndefined, ImageNoText,
           ImageTruncated}

section_header_by_name(e, section_name) ==
    IF section_name = ".text" THEN e.text ELSE e.plt


\* ------------------------------------------------------- the disassembler
InsnLine(ip, text) == [kind |-> "insn", address |-> ip, text |-> text]
RangeLine(address) ==
    [kind |-> "range", address |-> address,
     text |-> "Symbol out of range: " \o format_08X(address)]

\* The decode loop of decompile_symbol: one line per decode_out call while
\* can_decode() holds.  An instruction cut short by the end of the slice is
\* returned by the decoder as an invalid instruction that consumes the rest
\* of the slice.
RECURSIVE DecodeLoop(_, _, _)
DecodeLoop(code, pos, ip) ==
    IF pos > Len(code) THEN << >>
    ELSE LET len == InsnLen(code[pos])
             left == Len(code) - pos + 1
         IN IF len > left
            THEN << InsnLine(ip, "(bad)") >>
            ELSE << InsnLine(ip, Mnemonic(code[pos])) >>
                 \o DecodeLoop(code, pos + len, ip + len)

\* PLTPage::new panics: a relocation names a dynamic symbol the table does
\* not hold, or an address overflows in a build that checks overflow.
PLTPage_new_panics(e) ==
    \/ \E i \in 1..Len(e.rela_plt) : e.rela_plt[i] >= Len(e.dynsym)
    \/ /\ overflow_checks
       /\ \E i \in 1..Len(e.rela_plt) :
             \/ u64_mul_overflows(i, e.plt.sh_entsize)
             \/ u64_add_overflows(e.plt.sh_addr, i * e.plt.sh_entsize)

\* MySymbolResolver::new panics on the unwrap of a missing dynamic symbol
\* table or dynamic symbol, and as PLTPage::new does on the PLT addresses.
MySymbolResolver_new_panics(e) ==
    /\ e.has_rela_plt
    /\ e.plt.present
    /\ \/ ~e.has_dynsym
       \/ PLTPage_new_panics(e)

\* &section[start..end], MySymbolResolver::create_box(elf) and the decode
\* loop: the slice panics when start > end or end > len, and the construction
\* of the resolver panics as MySymbolResolver::new does.
SliceAndDecode(e, bytes, start, end, ip) ==
    IF u64_gt(start, end) \/ u64_gt(end, Len(bytes))
    THEN [panic |-> TRUE, lines |-> << >>]
    ELSE IF MySymbolResolver_new_panics(e)
    THEN [panic |-> TRUE, lines |-> << >>]
    ELSE [panic |-> FALSE,
          lines |-> DecodeLoop(SubSeq(bytes, start + 1, end), 1, ip)]

\* decompile_symbol with the range marker left out of the upper range check.
decompile_symbol_NoMarker(e, symbol_address, symbol_size, section_name) ==
    LET shdr == section_header_by_name(e, section_name)
    IN IF ~shdr.present THEN [panic |-> TRUE, lines |-> << >>]
       ELSE IF u64_lt(symbol_address, shdr.sh_addr)
       THEN [panic |-> FALSE, lines |-> << RangeLine(symbol_address) >>]
       ELSE LET code_offset == symbol_address - shdr.sh_addr
                end == code_offset + symbol_size
            IN IF u64_add_overflows(code_offset, symbol_size)
                  /\ overflow_checks
               THEN [panic |-> TRUE, lines |-> << >>]
               ELSE IF u64_gt(end, shdr.sh_size)
               THEN [panic |-> FALSE, lines |-> << >>]
               ELSE SliceAndDecode(e, shdr.bytes, code_offset, end,
                                   symbol_address)

\* Result: [panic, lines].  panic is the unwrap of a missing section header,
\* an overflowing code_offset + symbol_size in a build that checks overflow,
\* an invalid slice range, or a panic in the construction of the resolver.
decompile_symbol(e, symbol_address, symbol_size, section_name) ==
    LET shdr == section_header_by_name(e, section_name)
    IN IF ~shdr.present THEN [panic |-> TRUE, lines |-> << >>]
       ELSE IF u64_lt(symbol_address, shdr.sh_addr)
       THEN [panic |-> FALSE, lines |-> << RangeLine(symbol_address) >>]
       ELSE LET code_offset == symbol_address - shdr.sh_addr
                end == code_offset + symbol_size
            IN IF u64_add_overflows(code_offset, symbol_size)
                  /\ overflow_checks
               THEN [panic |-> TRUE, lines |-> << >>]
               ELSE IF u64_gt(end, shdr.sh_size)
               THEN [panic |-> FALSE,
                     lines |-> << RangeLine(symbol_address) >>]
               ELSE SliceAndDecode(e, shdr.bytes, code_offset, end,
                                   symbol_address)

\* -------------------------------------------------- ListState and List
ListState_select_next(state) ==
    Some(IF is_none(state) THEN 0 ELSE saturating_add1(unwrap(state)))

ListState_select_previous(state) ==
    Some(IF is_none(state) THEN USIZE_MAX ELSE saturating_sub1(unwrap(state)))

\* StatefulWidget::render of a List of n items: an empty list clears the
\* selection, a selection past the end becomes the last item.
List_render(n, state) ==
    IF n = 0 THEN None
    ELSE IF is_some(state) /\ unwrap(state) >= n THEN Some(n - 1)
    ELSE state

\* ------------------------------------------------------------ SymbolPage
\* DefinedSymbols without the is_undefined filter.
DefinedSymbols_KeepUndefined(e) == e.symtab

DefinedSymbols(e) == SelectSeq(e.symtab, LAMBDA s : ~s.undefined)

SymbolPage_new(e) ==
    LET defined == DefinedSymbols(e)
    IN [kind |-> "SymbolPage",
        names |-> [i \in 1..Len(defined) |-> defined[i].name],
        content |-> [i \in 1..Len(defined) |->
                        [address |-> defined[i].st_value,
                         size |-> defined[i].st_size,
                         decompiled |-> FALSE,
                         vertical_scroll |-> 0,
                         data |-> << >>]],
        state |-> None,
        ScrollState |-> [position |-> 0, content_length |-> 0],
        active_on_content |-> FALSE]

EmptyPage_new ==
    [kind |-> "EmptyPage",
     message |-> "This ELF file does not contain a symbol table"]

\* A handler's outcome: the page it leaves, whether it panicked, and the
\* index it handed to the disassembler (None when it made no such call).
Outcome(page, panic, called) ==
    [page |-> page, panic |-> panic, called |-> called]

\* load_symbol without the test of the decompiled flag.
SymbolPage_load_symbol_NoCache(p, e, idx) ==
    IF idx >= Len(p.content) THEN Outcome(p, FALSE, None)
    ELSE LET symbol == p.content[idx + 1]
             r == decompile_symbol(e, symbol.address, symbol.size, ".text")
         IN IF r.panic THEN Outcome(p, TRUE, Some(idx))
            ELSE Outcome([p EXCEPT !.content[idx + 1].data = r.lines,
                                   !.content[idx + 1].decompiled = TRUE],
                         FALSE, Some(idx))

SymbolPage_load_symbol(p, e, idx) ==
    IF idx >= Len(p.content) THEN Outcome(p, FALSE, None)
    ELSE LET symbol == p.content[idx + 1]
         IN IF ~symbol.decompiled
            THEN LET r == decompile_symbol(e, symbol.address, symbol.size,
                                           ".text")
                 IN IF r.panic THEN Outcome(p, TRUE, Some(idx))
                    ELSE Outcome([p EXCEPT !.content[idx + 1].data = r.lines,
                                           !.content[idx + 1].decompiled = TRUE],
                                 FALSE, Some(idx))
            ELSE Outcome(p, FALSE, None)

\* select_next that restarts the scroll of the entry it arrives at.
SymbolPage_select_next_ResetScroll(p, e) ==
    IF p.active_on_content
    THEN IF is_none(p.state) THEN Outcome(p, TRUE, None)
         ELSE LET idx == unwrap(p.state)
              IN IF idx >= Len(p.content) THEN Outcome(p, TRUE, None)
                 ELSE LET vs == saturating_add1(
                                    p.content[idx + 1].vertical_scroll)
                      IN Outcome([p EXCEPT
                                    !.content[idx + 1].vertical_scroll = vs,
                                    !.ScrollState.position = vs],
                                 FALSE, None)
    ELSE LET p1 == [p EXCEPT !.state = ListState_select_next(p.state)]
             idx == unwrap(p1.state)
             r == SymbolPage_load_symbol(p1, e, idx)
         IN IF r.panic THEN r
            ELSE IF idx >= Len(r.page.content)
            THEN Outcome(r.page, TRUE, r.called)
            ELSE Outcome([r.page EXCEPT
                             !.content[idx + 1].vertical_scroll = 0,
                             !.ScrollState.position = 0],
                         FALSE, r.called)

SymbolPage_select_next(p, e) ==
    IF p.active_on_content
    THEN IF is_none(p.state) THEN Outcome(p, TRUE, None)
         ELSE LET idx == unwrap(p.state)
              IN IF idx >= Len(p.content) THEN Outcome(p, TRUE, None)
                 ELSE LET vs == saturating_add1(
                                    p.content[idx + 1].vertical_scroll)
                      IN Outcome([p EXCEPT
                                    !.content[idx + 1].vertical_scroll = vs,
                                    !.ScrollState.position = vs],
                                 FALSE, None)
    ELSE LET p1 == [p EXCEPT !.state = ListState_select_next(p.state)]
             idx == unwrap(p1.state)
             r == SymbolPage_load_symbol(p1, e, idx)
         IN IF r.panic THEN r
            ELSE IF idx >= Len(r.page.content)
            THEN Outcome(r.page, TRUE, r.called)
            ELSE Outcome([r.page EXCEPT !.ScrollState.position =
                             r.page.content[idx + 1].vertical_scroll],
                         FALSE, r.called)

\* select_previous whose content branch scrolls the way select_next does.
SymbolPage_select_previous_ScrollsDown(p, e) ==
    IF p.active_on_content
    THEN IF is_none(p.state) THEN Outcome(p, TRUE, None)
         ELSE LET idx == unwrap(p.state)
              IN IF idx >= Len(p.content) THEN Outcome(p, TRUE, None)
                 ELSE LET vs == saturating_add1(
                                    p.content[idx + 1].vertical_scroll)
                      IN Outcome([p EXCEPT
                                    !.content[idx + 1].vertical_scroll = vs,
                                    !.ScrollState.position = vs],
                                 FALSE, None)
    ELSE LET p1 == [p EXCEPT !.state = ListState_select_previous(p.state)]
             idx == unwrap(p1.state)
             r == SymbolPage_load_symbol(p1, e, idx)
         IN IF r.panic THEN r
            ELSE IF idx >= Len(r.page.content)
            THEN Outcome(r.page, TRUE, r.called)
            ELSE Outcome([r.page EXCEPT !.ScrollState.position =
                             r.page.content[idx + 1].vertical_scroll],
                         FALSE, r.called)

SymbolPage_select_previous(p, e) ==
    IF p.active_on_content
    THEN IF is_none(p.state) THEN Outcome(p, TRUE, None)
         ELSE LET idx == unwrap(p.state)
              IN IF idx >= Len(p.content) THEN Outcome(p, TRUE, None)
                 ELSE LET vs == saturating_sub1(
                                    p.content[idx + 1].vertical_scroll)
                      IN Outcome([p EXCEPT
                                    !.content[idx + 1].vertical_scroll = vs,
                                    !.ScrollState.position = vs],
                                 FALSE, None)
    ELSE LET p1 == [p EXCEPT !.state = ListState_select_previous(p.state)]
             idx == unwrap(p1.state)
             r == SymbolPage_load_symbol(p1, e, idx)
         IN IF r.panic THEN r
            ELSE IF idx >= Len(r.page.content)
            THEN Outcome(r.page, TRUE, r.called)
            ELSE Outcome([r.page EXCEPT !.ScrollState.position =
                             r.page.content[idx + 1].vertical_scroll],
                         FALSE, r.called)

SymbolPage_select_left(p) == [p EXCEPT !.active_on_content = FALSE]

SymbolPage_select_right(p) == [p EXCEPT !.active_on_content = TRUE]

\* The details pane a render leaves on the screen.
Pane(title, message, lines, scroll) ==
    [title |-> title, message |-> message, lines |-> lines, scroll |-> scroll]

\* usize as u16: the low 16 bits.
as_u16(v) == v % 65536

\* render that leaves the scrollbar's content length as it was.
SymbolPage_render_StaleLength(p) ==
    LET selected == List_render(Len(p.names), p.state)
        p1 == [p EXCEPT !.state = selected]
    IN IF is_none(selected)
       THEN [page |-> p1,
             pane |-> Pane("Assembly", "Select a symbol to decompile",
                           << >>, 0)]
       ELSE LET data == p1.content[unwrap(selected) + 1].data
            IN [page |-> p1,
                pane |-> Pane("Assembly", "", data,
                              as_u16(p1.content[unwrap(selected) + 1]
                                        .vertical_scroll))]

\* Result: [page, pane].
SymbolPage_render(p) ==
    LET selected == List_render(Len(p.names), p.state)
        p1 == [p EXCEPT !.state = selected]
    IN IF is_none(selected)
       THEN [page |-> p1,
             pane |-> Pane("Assembly", "Select a symbol to decompile",
                           << >>, 0)]
       ELSE LET data == p1.content[unwrap(selected) + 1].data
            IN [page |-> [p1 EXCEPT !.ScrollState.content_length = Len(data)],
                pane |-> Pane("Assembly", "", data,
                              as_u16(p1.content[unwrap(selected) + 1]
                                        .vertical_scroll))]

\* ------------------------------------------------------------- EmptyPage
EmptyPage_select_next(p, e) == Outcome(p, FALSE, None)
EmptyPage_select_previous(p, e) == Outcome(p, FALSE, None)
EmptyPage_select_left(p) == p
EmptyPage_select_right(p) == p
EmptyPage_render(p) ==
    [page |-> p, pane |-> Pane("Error", p.message, << >>, 0)]

\* Box<dyn Page>: dispatch on the concrete page.
Page_select_next(p, e) ==
    IF p.kind = "EmptyPage" THEN EmptyPage_select_next(p, e)
    ELSE SymbolPage_select_next(p, e)
Page_select_previous(p, e) ==
    IF p.kind = "EmptyPage" THEN EmptyPage_select_previous(p, e)
    ELSE SymbolPage_select_previous(p, e)
Page_select_left(p) ==
    IF p.kind = "EmptyPage" THEN EmptyPage_select_left(p)
    ELSE SymbolPage_select_left(p)
Page_select_right(p) ==
    IF p.kind = "EmptyPage" THEN EmptyPage_select_right(p)
    ELSE SymbolPage_select_right(p)
Page_page_render(p) ==
    IF p.kind = "EmptyPage" THEN EmptyPage_render(p)
    ELSE SymbolPage_render(p)

\* --------------------------------------------------------------- PLTPage
PLTPage_new(e) ==
    LET name_list == [i \in 1..Len(e.rela_plt) |-> e.dynsym[e.rela_plt[i] + 1]]
    IN [names |-> name_list,
        content |-> [i \in 1..Len(name_list) |->
                        [address |-> e.plt.sh_addr + i * e.plt.sh_entsize,
                         size |-> e.plt.sh_entsize,
                         decompiled |-> FALSE,
                         data |-> << >>]],
        state |-> None,
        active_on_content |-> FALSE]

PLTPage_load_symbol(p, e, idx) ==
    IF idx >= Len(p.content) THEN Outcome(p, FALSE, None)
    ELSE LET symbol == p.content[idx + 1]
         IN IF ~symbol.decompiled
            THEN LET r == decompile_symbol(e, symbol.address, symbol.size,
                                           ".plt")
                 IN IF r.panic THEN Outcome(p, TRUE, Some(idx))
                    ELSE Outcome([p EXCEPT !.content[idx + 1].data = r.lines,
                                           !.content[idx + 1].decompiled = TRUE],
                                 FALSE, Some(idx))
            ELSE Outcome(p, FALSE, None)

PLTPage_select_next(p, e) ==
    LET p1 == [p EXCEPT !.state = ListState_select_next(p.state)]
    IN PLTPage_load_symbol(p1, e, unwrap(p1.state))

PLTPage_select_previous(p, e) ==
    LET p1 == [p EXCEPT !.state = ListState_select_previous(p.state)]
    IN PLTPage_load_symbol(p1, e, unwrap(p1.state))

PLTPage_select_left(p) == [p EXCEPT !.active_on_content = FALSE]

\* select_right with the assignment of select_left.
PLTPage_select_right_ClearsFocus(p) == [p EXCEPT !.active_on_content = FALSE]

PLTPage_select_right(p) == [p EXCEPT !.active_on_content = TRUE]

PLTPage_render(p) ==
    LET selected == List_render(Len(p.names), p.state)
        p1 == [p EXCEPT !.state = selected]
    IN IF is_none(selected)
       THEN [page |-> p1,
             pane |-> Pane("PLT Table", "Select a symbol to decompile",
                           << >>, 0)]
       ELSE [page |-> p1,
             pane |-> Pane("PLT Table", "",
                           p1.content[unwrap(selected) + 1].data, 0)]

\* ------------------------------------------- SectionPage, DependenciesPage
\* Result: [state, pane].
SectionPage_render(n, state) ==
    LET selected == List_render(n, state)
    IN [state |-> selected,
        pane |-> IF is_none(selected)
                 THEN Pane("Section Summary",
                           "Select a section to show its details", << >>, 0)
                 ELSE IF unwrap(selected) >= n
                 THEN Pane("Section Summary", "Section not found", << >>, 0)
                 ELSE Pane("Section Summary", "Description", << >>, 0)]

DependenciesPage_render(n, state) ==
    LET selected == List_render(n, state)
    IN [state |-> selected,
        pane |-> IF is_some(selected)
                 THEN Pane("Library Details", "Library", << >>, 0)
                 ELSE Pane("Library Details",
                           "Select a library to view details", << >>, 0)]

\* ------------------------------------------------------------------- App
AppTab == {"Summary", "Sections", "Deassembly", "PLT", "Dependencies"}

\* Calls made to decompile_symbol so far, per section and entry.
Bump(calls, section_name, called) ==
    IF is_none(called) THEN calls
    ELSE [calls EXCEPT ![section_name][unwrap(called) + 1] = @ + 1]

\* No call of a constructor or pure function is on record.
NoProbe == [fn |-> "none"]

\* App::new.  It panics on the unwrap / expect of a missing section table,
\* dynamic symbol table, .rela.plt, .plt or program header table, and when
\* PLTPage::new panics.
App_new(e) ==
    IF \/ ~e.has_dynsym
       \/ ~e.has_rela_plt
       \/ ~e.plt.present
       \/ ~e.has_segments
       \/ ~e.has_sections
       \/ PLTPage_new_panics(e)
    THEN [panic |-> TRUE]
    ELSE [panic |-> FALSE,
          selected_tab |-> "Summary",
          symbol_page |-> IF e.has_symtab THEN SymbolPage_new(e)
                          ELSE EmptyPage_new,
          plt_page |-> PLTPage_new(e),
          section_state |-> None,
          deps_state |-> None]

Init ==
    /\ elf \in Images
    /\ overflow_checks = FALSE
    /\ probe = NoProbe
    /\ pc = "draw"
    /\ ~App_new(elf).panic
    /\ selected_tab = App_new(elf).selected_tab
    /\ symbol_page = App_new(elf).symbol_page
    /\ plt_page = App_new(elf).plt_page
    /\ section_state = App_new(elf).section_state
    /\ deps_state = App_new(elf).deps_state
    /\ decompile_calls =
          [text |-> [i \in 1..Len(DefinedSymbols(elf)) |-> 0],
           plt |-> [i \in 1..Len(elf.rela_plt) |-> 0]]
    /\ pane = Pane("", "", << >>, 0)

\* App::run, first half of the loop body: terminal.draw renders the page of
\* the selected tab.
Draw ==
    /\ pc = "draw"
    /\ pc' = "events"
    /\ CASE selected_tab = "Summary" ->
              /\ pane' = Pane("Summary", "Summary", << >>, 0)
              /\ UNCHANGED <<symbol_page, plt_page, section_state, deps_state>>
         [] selected_tab = "Sections" ->
              LET r == SectionPage_render(elf.nsections, section_state)
              IN /\ section_state' = r.state
                 /\ pane' = r.pane
                 /\ UNCHANGED <<symbol_page, plt_page, deps_state>>
         [] selected_tab = "Deassembly" ->
              LET r == Page_page_render(symbol_page)
              IN /\ symbol_page' = r.page
                 /\ pane' = r.pane
                 /\ UNCHANGED <<plt_page, section_state, deps_state>>
         [] selected_tab = "PLT" ->
              LET r == PLTPage_render(plt_page)
              IN /\ plt_page' = r.page
                 /\ pane' = r.pane
                 /\ UNCHANGED <<symbol_page, section_state, deps_state>>
         [] selected_tab = "Dependencies" ->
              LET r == DependenciesPage_render(elf.nneeded, deps_state)
              IN /\ deps_state' = r.state
                 /\ pane' = r.pane
                 /\ UNCHANGED <<symbol_page, plt_page, section_state>>
    /\ UNCHANGED <<overflow_checks, probe, elf, selected_tab, decompile_calls>>

\* The vertical_scroll the Down key would raise, when it would raise one.
ScrollTarget ==
    IF /\ selected_tab = "Deassembly"
       /\ symbol_page.kind = "SymbolPage"
       /\ symbol_page.active_on_content
       /\ is_some(symbol_page.state)
       /\ unwrap(symbol_page.state) < Len(symbol_page.content)
    THEN symbol_page.content[unwrap(symbol_page.state) + 1].vertical_scroll
    ELSE 0

\* KeyCode::Down: App::select_next
App_select_next ==
    /\ pc = "events"
    /\ ScrollTarget < MaxScroll
    /\ CASE selected_tab = "Summary" ->
              /\ pc' = "draw"
              /\ UNCHANGED <<symbol_page, plt_page, section_state, deps_state,
                             decompile_calls>>
         [] selected_tab = "Sections" ->
              /\ section_state' = ListState_select_next(section_state)
              /\ pc' = "draw"
              /\ UNCHANGED <<symbol_page, plt_page, deps_state,
                             decompile_calls>>
         [] selected_tab = "Deassembly" ->
              LET r == Page_select_next(symbol_page, elf)
              IN /\ symbol_page' = r.page
                 /\ pc' = IF r.panic THEN "panicked" ELSE "draw"
                 /\ decompile_calls' = Bump(decompile_calls, "text", r.called)
                 /\ UNCHANGED <<plt_page, section_state, deps_state>>
         [] selected_tab = "PLT" ->
              LET r == PLTPage_select_next(plt_page, elf)
              IN /\ plt_page' = r.page
                 /\ pc' = IF r.panic THEN "panicked" ELSE "draw"
                 /\ decompile_calls' = Bump(decompile_calls, "plt", r.called)
                 /\ UNCHANGED <<symbol_page, section_state, deps_state>>
         [] selected_tab = "Dependencies" ->
              /\ deps_state' = ListState_select_next(deps_state)
              /\ pc' = "draw"
              /\ UNCHANGED <<symbol_page, plt_page, section_state,
                             decompile_calls>>
    /\ UNCHANGED <<overflow_checks, probe, elf, selected_tab, pane>>

\* KeyCode::Up: App::select_previous
App_select_previous ==
    /\ pc = "events"
    /\ CASE selected_tab = "Summary" ->
              /\ pc' = "draw"
              /\ UNCHANGED <<symbol_page, plt_page, section_state, deps_state,
                             decompile_calls>>
         [] selected_tab = "Sections" ->
              /\ section_state' = ListState_select_previous(section_state)
              /\ pc' = "draw"
              /\ UNCHANGED <<symbol_page, plt_page, deps_state,
                             decompile_calls>>
         [] selected_tab = "Deassembly" ->
              LET r == Page_select_previous(symbol_page, elf)
              IN /\ symbol_page' = r.page
                 /\ pc' = IF r.panic THEN "panicked" ELSE "draw"
                 /\ decompile_calls' = Bump(decompile_calls, "text", r.called)
                 /\ UNCHANGED <<plt_page, section_state, deps_state>>
         [] selected_tab = "PLT" ->
              LET r == PLTPage_select_previous(plt_page, elf)
              IN /\ plt_page' = r.page
                 /\ pc' = IF r.panic THEN "panicked" ELSE "draw"
                 /\ decompile_calls' = Bump(decompile_calls, "plt", r.called)
                 /\ UNCHANGED <<symbol_page, section_state, deps_state>>
         [] selected_tab = "Dependencies" ->
              /\ deps_state' = ListState_select_previous(deps_state)
              /\ pc' = "draw"
              /\ UNCHANGED <<symbol_page, plt_page, section_state,
                             decompile_calls>>
    /\ UNCHANGED <<overflow_checks, probe, elf, selected_tab, pane>>

\* App::select_left reaching the PLT page whatever the selected tab.
App_select_left_AnyTab ==
    /\ pc = "events"
    /\ pc' = "draw"
    /\ symbol_page' = IF selected_tab = "Deassembly"
                      THEN Page_select_left(symbol_page) ELSE symbol_page
    /\ plt_page' = PLTPage_select_left(plt_page)
    /\ UNCHANGED <<overflow_checks, probe, elf, selected_tab, section_state, deps_state,
                   decompile_calls, pane>>

\* KeyCode::Left: App::select_left
App_select_left ==
    /\ pc = "events"
    /\ pc' = "draw"
    /\ symbol_page' = IF selected_tab = "Deassembly"
                      THEN Page_select_left(symbol_page) ELSE symbol_page
    /\ plt_page' = IF selected_tab = "PLT"
                   THEN PLTPage_select_left(plt_page) ELSE plt_page
    /\ UNCHANGED <<overflow_checks, probe, elf, selected_tab, section_state, deps_state,
                   decompile_calls, pane>>

\* KeyCode::Right: App::select_right
App_select_right ==
    /\ pc = "events"
    /\ pc' = "draw"
    /\ symbol_page' = IF selected_tab = "Deassembly"
                      THEN Page_select_right(symbol_page) ELSE symbol_page
    /\ plt_page' = IF selected_tab = "PLT"
                   THEN PLTPage_select_right(plt_page) ELSE plt_page
    /\ UNCHANGED <<overflow_checks, probe, elf, selected_tab, section_state, deps_state,
                   decompile_calls, pane>>

\* KeyCode::Char('1') .. Char('5')
SelectTab ==
    /\ pc = "events"
    /\ \E t \in AppTab : selected_tab' = t
    /\ pc' = "draw"
    /\ UNCHANGED <<overflow_checks, probe, elf, symbol_page, plt_page, section_state, deps_state,
                   decompile_calls, pane>>

\* KeyCode::Char('q'): handle_events returns Ok(true) and run leaves its loop.
Quit ==
    /\ pc = "events"
    /\ pc' = "done"
    /\ UNCHANGED <<overflow_checks, probe, elf, selected_tab, symbol_page, plt_page, section_state,
                   deps_state, decompile_calls, pane>>

\* The poll timed out, or the event was not a press of a bound key.
NoKey ==
    /\ pc = "events"
    /\ pc' = "draw"
    /\ UNCHANGED <<overflow_checks, probe, elf, selected_tab, symbol_page, plt_page, section_state,
                   deps_state, decompile_calls, pane>>

Next ==
    \/ Draw
    \/ App_select_next
    \/ App_select_previous
    \/ App_select_left
    \/ App_select_right
    \/ SelectTab
    \/ Quit
    \/ NoKey

Spec == Init /\ [][Next]_vars

\* ======================================================== navigation claims
IsSymbolPage == symbol_page.kind = "SymbolPage"

\* The entry of a catalog holds the disassembler's result for its range.
HoldsDisassembly(entry, section_name) ==
    /\ entry.decompiled
    /\ entry.data =
         decompile_symbol(elf, entry.address, entry.size, section_name).lines

\* C1: in either catalog, the entry a render shows as selected is decoded and
\* stores the disassembler's result for that entry.
C1_RenderedSelectionDecoded ==
    pc = "events" =>
      /\ (selected_tab = "PLT" /\ is_some(plt_page.state)) =>
            HoldsDisassembly(plt_page.content[unwrap(plt_page.state) + 1],
                             ".plt")
      /\ (selected_tab = "Deassembly" /\ IsSymbolPage
              /\ is_some(symbol_page.state)) =>
            HoldsDisassembly(
                symbol_page.content[unwrap(symbol_page.state) + 1], ".text")

\* The cursor a saturating step down / up leaves in a list of n entries.
DownTarget(state, n) ==
    IF is_none(state) THEN Some(0)
    ELSE IF unwrap(state) < n - 1 THEN Some(unwrap(state) + 1)
    ELSE Some(n - 1)

UpTarget(state) ==
    IF unwrap(state) > 0 THEN Some(unwrap(state) - 1) ELSE Some(0)

InList(state, n) == is_none(state) \/ unwrap(state) \in 0..(n - 1)

\* C2: in list focus on a catalog of N >= 1 entries, on_down moves the cursor
\* from unselected to 0, from i < N-1 to i+1, and from N-1 leaves it at N-1.
C2_DownSaturates ==
    [][ /\ (App_select_next /\ selected_tab = "PLT"
               /\ ~plt_page.active_on_content /\ Len(plt_page.content) >= 1)
           => plt_page'.state =
                 DownTarget(plt_page.state, Len(plt_page.content))
        /\ (App_select_next /\ selected_tab = "Deassembly" /\ IsSymbolPage
               /\ ~symbol_page.active_on_content
               /\ Len(symbol_page.content) >= 1)
           => symbol_page'.state =
                 DownTarget(symbol_page.state, Len(symbol_page.content))
      ]_vars

\* C3: in list focus on a catalog of N >= 1 entries on_up moves the cursor from i > 0 to i-1 and from 0 to
\* 0, and never leaves it at an index outside 0..N-1.
C3_UpSaturates ==
    [][ /\ (App_select_previous /\ selected_tab = "PLT"
               /\ ~plt_page.active_on_content /\ Len(plt_page.content) >= 1)
           => /\ InList(plt_page'.state, Len(plt_page.content))
              /\ is_some(plt_page.state) =>
                    plt_page'.state = UpTarget(plt_page.state)
        /\ (App_select_previous /\ selected_tab = "Deassembly"
               /\ IsSymbolPage /\ ~symbol_page.active_on_content
               /\ Len(symbol_page.content) >= 1)
           => /\ InList(symbol_page'.state, Len(symbol_page.content))
              /\ is_some(symbol_page.state) =>
                    symbol_page'.state = UpTarget(symbol_page.state)
      ]_vars

\* C4: no navigation event or render aborts the program.
C4_NoPanic == pc # "panicked"

\* C5: in content focus on_down and on_up leave the cursor of the symbol
\* catalog and of the PLT catalog unchanged.
C5_ContentFocusKeepsCursor ==
    [][ /\ ((App_select_next \/ App_select_previous)
               /\ selected_tab = "PLT" /\ plt_page.active_on_content)
           => plt_page'.state = plt_page.state
        /\ ((App_select_next \/ App_select_previous)
               /\ selected_tab = "Deassembly" /\ IsSymbolPage
               /\ symbol_page.active_on_content)
           => symbol_page'.state = symbol_page.state
      ]_vars

\* The symbol catalog is in content focus with a valid entry selected.
SymbolContentFocus ==
    /\ selected_tab = "Deassembly"
    /\ IsSymbolPage
    /\ symbol_page.active_on_content
    /\ is_some(symbol_page.state)
    /\ unwrap(symbol_page.state) < Len(symbol_page.content)

\* C6: in content focus with entry i of the symbol catalog selected, on_down
\* adds exactly 1 to entry i's vertical_scroll, on_up subtracts 1 but stops at
\* 0; the cursor and every other entry stay as they are.
C6_ContentScroll ==
    [][ SymbolContentFocus =>
          LET i == unwrap(symbol_page.state) + 1
          IN /\ App_select_next =>
                  /\ symbol_page'.state = symbol_page.state
                  /\ symbol_page'.content =
                        [symbol_page.content EXCEPT
                            ![i].vertical_scroll = @ + 1]
             /\ App_select_previous =>
                  /\ symbol_page'.state = symbol_page.state
                  /\ symbol_page'.content =
                        [symbol_page.content EXCEPT
                            ![i].vertical_scroll = IF @ = 0 THEN 0 ELSE @ - 1]
      ]_vars

C6_Witness ==
    /\ SymbolContentFocus
    /\ pc = "draw"
    /\ symbol_page.state = Some(1)
    /\ symbol_page.content[2].vertical_scroll = 1
    /\ symbol_page.content[1].vertical_scroll = 2

\* C7: in list focus on_down and on_up of the symbol catalog leave the
\* vertical_scroll of every entry, the focus, and every entry other than the
\* one arrived at unchanged.
C7_ListMoveKeepsScroll ==
    [][ ((App_select_next \/ App_select_previous)
            /\ selected_tab = "Deassembly" /\ IsSymbolPage
            /\ ~symbol_page.active_on_content)
        => /\ Len(symbol_page'.content) = Len(symbol_page.content)
           /\ symbol_page'.active_on_content = symbol_page.active_on_content
           /\ \A i \in 1..Len(symbol_page.content) :
                /\ symbol_page'.content[i].vertical_scroll =
                      symbol_page.content[i].vertical_scroll
                /\ symbol_page'.state # Some(i - 1) =>
                      symbol_page'.content[i] = symbol_page.content[i]
      ]_vars

C7_Witness ==
    /\ IsSymbolPage
    /\ pc = "draw"
    /\ ~symbol_page.active_on_content
    /\ symbol_page.state = Some(0)
    /\ symbol_page.content[1].vertical_scroll = 1
    /\ symbol_page.content[2].vertical_scroll = 2

\* Indices handed to load_symbol: every valid one, the first invalid one and
\* usize::MAX.
ProbeIndices(content) == 0..Len(content) \cup {USIZE_MAX}

\* C8: an entry that is decoded stays decoded with the same disassembly
\* through every event and render; load_symbol on a decoded entry or on an
\* out-of-range index changes nothing; the disassembler is called at most
\* once per entry.
C8_DecodedMonotonic ==
    /\ [](/\ \A idx \in ProbeIndices(plt_page.content) :
              (idx >= Len(plt_page.content)
                   \/ plt_page.content[idx + 1].decompiled)
              => PLTPage_load_symbol(plt_page, elf, idx) =
                     Outcome(plt_page, FALSE, None)
          /\ IsSymbolPage =>
               \A idx \in ProbeIndices(symbol_page.content) :
                  (idx >= Len(symbol_page.content)
                       \/ symbol_page.content[idx + 1].decompiled)
                  => SymbolPage_load_symbol(symbol_page, elf, idx) =
                         Outcome(symbol_page, FALSE, None)
          /\ \A i \in DOMAIN decompile_calls.text :
                decompile_calls.text[i] <= 1
          /\ \A i \in DOMAIN decompile_calls.plt :
                decompile_calls.plt[i] <= 1)
    /\ [][ /\ \A i \in 1..Len(plt_page.content) :
                plt_page.content[i].decompiled =>
                   /\ plt_page'.content[i].decompiled
                   /\ plt_page'.content[i].data = plt_page.content[i].data
           /\ IsSymbolPage =>
                \A i \in 1..Len(symbol_page.content) :
                   symbol_page.content[i].decompiled =>
                      /\ symbol_page'.content[i].decompiled
                      /\ symbol_page'.content[i].data =
                            symbol_page.content[i].data
         ]_vars

C8_Witness ==
    /\ IsSymbolPage
    /\ pc = "draw"
    /\ symbol_page.state = Some(0)
    /\ symbol_page.content[1].decompiled
    /\ symbol_page.content[2].decompiled
    /\ decompile_calls.text[1] = 1
    /\ plt_page.state = Some(0)
    /\ Len(plt_page.content) >= 2
    /\ plt_page.content[2].decompiled

\* Every entry of both catalogs, with the section it is decoded from.
CatalogEntries ==
    {<<plt_page.content[i], ".plt">> : i \in 1..Len(plt_page.content)}
    \cup (IF IsSymbolPage
          THEN {<<symbol_page.content[i], ".text">> :
                     i \in 1..Len(symbol_page.content)}
          ELSE {})

\* The entry's byte range lies inside its section.
InSection(entry, section_name) ==
    LET shdr == section_header_by_name(elf, section_name)
    IN /\ shdr.present
       /\ entry.address >= shdr.sh_addr
       /\ entry.address - shdr.sh_addr + entry.size <= shdr.sh_size

\* C9 as stated: an undecoded entry has an empty disassembly and a decoded
\* entry has at least one line.
C9_DecodedHasLines ==
    \A ce \in CatalogEntries :
        /\ ~ce[1].decompiled => ce[1].data = << >>
        /\ ce[1].decompiled => Len(ce[1].data) >= 1

\* C9 (amended): an undecoded entry has an empty disassembly; a decoded entry
\* has at least one line unless its size is 0 and its address lies inside the
\* section, in which case its disassembly is empty.
C9_DecodedHasLinesUnlessEmpty ==
    \A ce \in CatalogEntries :
        /\ ~ce[1].decompiled => ce[1].data = << >>
        /\ ce[1].decompiled =>
              IF ce[1].size = 0 /\ InSection(ce[1], ce[2])
              THEN ce[1].data = << >>
              ELSE Len(ce[1].data) >= 1

C9_Witness ==
    /\ IsSymbolPage
    /\ Len(symbol_page.content) = 3
    /\ \A i \in 1..3 : symbol_page.content[i].decompiled
    /\ symbol_page.content[2].size = 0
    /\ symbol_page.content[2].data = << >>
    /\ symbol_page.content[3].data = << RangeLine(8192) >>
    /\ Len(symbol_page.content[1].data) = 3

\* C10: focus starts as List; on_right sets Content and on_left sets List from
\* either state and change nothing else; on_down and on_up keep the focus;
\* repeating on_left or on_right equals doing it once.
C10_FocusMachine ==
    /\ ~plt_page.active_on_content
    /\ IsSymbolPage => ~symbol_page.active_on_content
    /\ [][ /\ (App_select_right /\ selected_tab = "PLT") =>
                /\ plt_page' = [plt_page EXCEPT !.active_on_content = TRUE]
                /\ PLTPage_select_right(plt_page') = plt_page'
                /\ UNCHANGED <<symbol_page, decompile_calls>>
           /\ (App_select_left /\ selected_tab = "PLT") =>
                /\ plt_page' = [plt_page EXCEPT !.active_on_content = FALSE]
                /\ PLTPage_select_left(plt_page') = plt_page'
                /\ UNCHANGED <<symbol_page, decompile_calls>>
           /\ (App_select_right /\ selected_tab = "Deassembly"
                  /\ IsSymbolPage) =>
                /\ symbol_page' =
                      [symbol_page EXCEPT !.active_on_content = TRUE]
                /\ Page_select_right(symbol_page') = symbol_page'
                /\ UNCHANGED <<plt_page, decompile_calls>>
           /\ (App_select_left /\ selected_tab = "Deassembly"
                  /\ IsSymbolPage) =>
                /\ symbol_page' =
                      [symbol_page EXCEPT !.active_on_content = FALSE]
                /\ Page_select_left(symbol_page') = symbol_page'
                /\ UNCHANGED <<plt_page, decompile_calls>>
           /\ (App_select_next \/ App_select_previous) =>
                /\ plt_page'.active_on_content = plt_page.active_on_content
                /\ IsSymbolPage =>
                      symbol_page'.active_on_content =
                         symbol_page.active_on_content
         ]_vars

C10_Witness ==
    /\ IsSymbolPage
    /\ pc = "draw"
    /\ symbol_page.active_on_content
    /\ symbol_page.state = Some(1)
    /\ ~plt_page.active_on_content
    /\ plt_page.state = Some(1)
    /\ selected_tab = "PLT"
    /\ pane.title = "PLT Table"

\* 1 when the step changes x, else 0.
Changed(before, after) == IF before # after THEN 1 ELSE 0

\* C23: each key event mutates at most one thing among the selected tab, the
\* quit flag and the four catalogs; arrow keys touch only the catalog of the
\* active tab (nothing on Summary; Left and Right nothing on Sections and
\* Dependencies), keys 1..5 change only the selected tab, 'q' only the quit
\* flag; the catalog of a non-active tab is unchanged by every step.
C23_OneThingPerEvent ==
    [][/\ selected_tab # "Deassembly" => symbol_page' = symbol_page
       /\ selected_tab # "PLT" => plt_page' = plt_page
       /\ selected_tab # "Sections" => section_state' = section_state
       /\ selected_tab # "Dependencies" => deps_state' = deps_state
       /\ pc = "events" =>
             /\ Changed(selected_tab, selected_tab')
                   + Changed(symbol_page, symbol_page')
                   + Changed(plt_page, plt_page')
                   + Changed(section_state, section_state')
                   + Changed(deps_state, deps_state')
                   + (IF pc' = "done" THEN 1 ELSE 0) <= 1
             /\ (App_select_left \/ App_select_right) =>
                   UNCHANGED <<selected_tab, section_state, deps_state>>
             /\ (App_select_next \/ App_select_previous
                 \/ App_select_left \/ App_select_right) =>
                   /\ selected_tab' = selected_tab
                   /\ pc' # "done"
                   /\ selected_tab = "Summary" =>
                         UNCHANGED <<symbol_page, plt_page, section_state,
                                     deps_state>>
             /\ SelectTab =>
                   /\ pc' = "draw"
                   /\ UNCHANGED <<symbol_page, plt_page, section_state,
                                  deps_state>>
             /\ Quit =>
                   UNCHANGED <<selected_tab, symbol_page, plt_page,
                               section_state, deps_state>>
      ]_vars

\* An event has been handled on the Sections tab while the symbol catalog
\* keeps a decoded, selected entry in content focus and the PLT catalog its
\* own cursor and content focus.
C23_Witness ==
    /\ pc = "draw"
    /\ selected_tab = "Sections"
    /\ is_some(section_state)
    /\ IsSymbolPage
    /\ symbol_page.active_on_content
    /\ symbol_page.state = Some(0)
    /\ symbol_page.content[1].decompiled
    /\ plt_page.active_on_content
    /\ plt_page.state = Some(1)

\* C24: in the symbol catalog, after every on_down or on_up that returns, in
\* list focus or content focus, the scrollbar position equals the
\* vertical_scroll of the selected entry; a render with an entry selected
\* sets the scrollbar content length to the number of lines of that entry's
\* disassembly, and a render with no entry selected shows "Select a symbol
\* to decompile".
C24_ScrollbarSync ==
    [][/\ (/\ App_select_next \/ App_select_previous
           /\ selected_tab = "Deassembly"
           /\ IsSymbolPage
           /\ pc' = "draw") =>
             /\ is_some(symbol_page'.state)
             /\ unwrap(symbol_page'.state) < Len(symbol_page'.content)
             /\ symbol_page'.ScrollState.position =
                   symbol_page'.content[unwrap(symbol_page'.state) + 1]
                      .vertical_scroll
       /\ (Draw /\ selected_tab = "Deassembly" /\ IsSymbolPage) =>
             IF is_some(symbol_page'.state)
             THEN /\ symbol_page'.ScrollState.content_length =
                        Len(symbol_page'.content[unwrap(symbol_page'.state)
                                                    + 1].data)
                  /\ pane'.lines =
                        symbol_page'.content[unwrap(symbol_page'.state)
                                                + 1].data
             ELSE pane'.message = "Select a symbol to decompile"
      ]_vars

\* The second entry has been scrolled down twice in content focus and
\* rendered: the scrollbar stands at 2 over the lines of its disassembly.
C24_Witness ==
    /\ IsSymbolPage
    /\ pc = "events"
    /\ selected_tab = "Deassembly"
    /\ symbol_page.active_on_content
    /\ symbol_page.state = Some(1)
    /\ symbol_page.content[2].vertical_scroll = 2
    /\ symbol_page.ScrollState.position = 2
    /\ symbol_page.ScrollState.content_length
          = Len(symbol_page.content[2].data)
    /\ pane.lines = symbol_page.content[2].data
    /\ pane.scroll = 2

\* ================================================ constructors and functions
\* SpecFn calls one constructor or pure function on an input drawn from a
\* bounded set and records the call in probe; the application state is that
\* of a freshly constructed viewer and stays put.
fnFrame ==
    UNCHANGED <<elf, pc, selected_tab, symbol_page, plt_page, section_state,
                deps_state, decompile_calls, pane, overflow_checks>>

InitFn ==
    /\ elf = ImageFull
    /\ overflow_checks \in BOOLEAN
    /\ probe = NoProbe
    /\ pc = "probe"
    /\ selected_tab = "Summary"
    /\ symbol_page = SymbolPage_new(elf)
    /\ plt_page = PLTPage_new(elf)
    /\ section_state = None
    /\ deps_state = None
    /\ decompile_calls =
          [text |-> [i \in 1..Len(DefinedSymbols(elf)) |-> 0],
           plt |-> [i \in 1..Len(elf.rela_plt) |-> 0]]
    /\ pane = Pane("", "", << >>, 0)

\* ------------------------------------------------------ PLT construction
\* Most relocations of a .rela.plt the model builds a catalog from.
MaxRelocs == 3

\* Dynamic symbol names; index 0 is the null symbol.
DynNames == <<"", "printf", "malloc", "free", "puts", "exit">>

\* .plt base addresses, among them 2^64 - 32, and entry sizes.
PltAddrs == {0, 4128, -32}
PltEntSizes == {0, 1, 16}

\* An image whose .plt header is (addr, entsize) and whose .rela.plt holds
\* nrel relocations against the dynamic symbols 1, 2, ...
PltImage(addr, entsize, nrel) ==
    [ImageFull EXCEPT
        !.plt = [present |-> TRUE, sh_addr |-> addr, sh_size |-> 0,
                 sh_entsize |-> entsize, bytes |-> << >>],
        !.rela_plt = [i \in 1..nrel |-> ((i - 1) % (Len(DynNames) - 1)) + 1],
        !.dynsym = DynNames]

Call_PLTPage_new ==
    /\ probe = NoProbe
    /\ \E addr \in PltAddrs, entsize \in PltEntSizes, nrel \in 0..MaxRelocs :
          LET e == PltImage(addr, entsize, nrel)
          IN probe' = [fn |-> "PLTPage_new",
                       in |-> [addr |-> addr, entsize |-> entsize,
                               nrel |-> nrel, image |-> e],
                       out |-> [panic |-> PLTPage_new_panics(e),
                                page |-> PLTPage_new(e)]]
    /\ fnFrame

\* C11: a PLT catalog built from R relocations against a .plt with base A and
\* entry size E is built without failure and has exactly R entries, the i-th
\* (zero-based) at A + (i+1)*E with size E, the addresses strictly increasing.
C11_PltAddresses ==
    probe.fn = "PLTPage_new" =>
        LET content == probe.out.page.content
        IN /\ ~probe.out.panic
           /\ Len(content) = probe.in.nrel
           /\ \A i \in 1..Len(content) :
                 /\ content[i].address = probe.in.addr + i * probe.in.entsize
                 /\ content[i].size = probe.in.entsize
           /\ \A i, j \in 1..Len(content) :
                 i < j => u64_lt(content[i].address, content[j].address)

\* C12: every entry of the PLT catalog is named <imported_name>@plt, in
\* relocation order.
C12_PltNames ==
    (probe.fn = "PLTPage_new" /\ ~probe.out.panic) =>
        /\ Len(probe.out.page.names) = probe.in.nrel
        /\ \A i \in 1..probe.in.nrel :
              probe.out.page.names[i] =
                 probe.in.image.dynsym[probe.in.image.rela_plt[i] + 1]
                    \o "@plt"

\* ----------------------------------------------------------- disassembler
\* A .text of 0x40 bytes at 0x1000: nop, nop, nop, ret, repeated.
ProbeText == [i \in 1..64 |-> IF i % 4 = 0 THEN 195 ELSE 144]
ProbeTextImage == [ImageFull EXCEPT !.text = Section(4096, 0, ProbeText)]

\* Requested addresses and sizes, among them 2^64 - 1 and 2^64 - 2.
ProbeAddrs == {0, 4095, 4096, 4097, 4100, 4159, 4160, 4161, -1}
ProbeSizes == {0, 1, 4, 63, 64, 65, -1, -2}

\* Images the disassembler is asked about: one-byte instructions only, a
\* .text with a two-byte jmp and a five-byte call that a slice can cut, an
\* image without dynamic symbol table, and one whose PLT addresses overflow.
ProbeTextImages ==
    {ProbeTextImage, ImageFull,
     [ImageFull EXCEPT !.has_dynsym = FALSE, !.dynsym = << >>],
     PltImage(-32, 16, 2)}

Call_decompile_symbol ==
    /\ probe = NoProbe
    /\ \E image \in ProbeTextImages, address \in ProbeAddrs,
          size \in ProbeSizes :
          probe' = [fn |-> "decompile_symbol",
                    in |-> [address |-> address, size |-> size,
                            image |-> image],
                    out |-> decompile_symbol(image, address, size, ".text")]
    /\ fnFrame

\* a + n > s + z over the 64-bit values the four operands stand for, without
\* wrapping: an operand below zero stands for itself plus 2^64.
WrapCount(v) == IF v < 0 THEN 1 ELSE 0
u64_sum_gt(a, n, s, z) ==
    LET hi == WrapCount(a) + WrapCount(n)
        lo == WrapCount(s) + WrapCount(z)
    IN IF hi # lo THEN hi > lo ELSE a + n > s + z

\* C13: for a section (S, Z) and a request (A, N): if A < S or A + N > S + Z
\* the result is exactly the one line "Symbol out of range: " followed by A
\* in upper-case hex padded to 8 digits; otherwise the lines are the decoding
\* of section bytes [A-S, A-S+N).  For all 64-bit A and N, no abort.
C13_RangeCheck ==
    probe.fn = "decompile_symbol" =>
        LET A == probe.in.address
            N == probe.in.size
            text == probe.in.image.text
        IN /\ ~probe.out.panic
           /\ IF u64_lt(A, text.sh_addr)
                 \/ u64_sum_gt(A, N, text.sh_addr, text.sh_size)
              THEN /\ Len(probe.out.lines) = 1
                   /\ probe.out.lines[1].kind = "range"
                   /\ probe.out.lines[1].text
                         = "Symbol out of range: " \o format_08X(A)
              ELSE probe.out.lines
                      = DecodeLoop(SubSeq(text.bytes, A - text.sh_addr + 1,
                                          A - text.sh_addr + N), 1, A)
           /\ (A = 4095 /\ N = 1) =>
                 probe.out.lines[1].text = "Symbol out of range: 00000FFF"
           /\ (A = 4096 /\ N = 65) =>
                 probe.out.lines[1].text = "Symbol out of range: 00001000"

\* ------------------------------------------------ application construction
\* The tables and sections the viewer treats as optional.
OptionalSections == {"symtab", "dynsym", "rela_plt", "plt", "dynamic"}

\* The image e without the tables and sections named in missing.
Lacking(e, missing) ==
    [e EXCEPT
        !.has_symtab = e.has_symtab /\ "symtab" \notin missing,
        !.symtab = IF "symtab" \in missing THEN << >> ELSE e.symtab,
        !.has_dynsym = e.has_dynsym /\ "dynsym" \notin missing,
        !.dynsym = IF "dynsym" \in missing THEN << >> ELSE e.dynsym,
        !.has_rela_plt = e.has_rela_plt /\ "rela_plt" \notin missing,
        !.rela_plt = IF "rela_plt" \in missing THEN << >> ELSE e.rela_plt,
        !.plt = IF "plt" \in missing THEN NoSection ELSE e.plt,
        !.has_dynamic = e.has_dynamic /\ "dynamic" \notin missing,
        !.nneeded = IF "dynamic" \in missing THEN 0 ELSE e.nneeded]

Call_App_new ==
    /\ probe = NoProbe
    /\ \E missing \in SUBSET OptionalSections :
          probe' = [fn |-> "App_new",
                    in |-> [missing |-> missing,
                            image |-> Lacking(ImageFull, missing)],
                    out |-> App_new(Lacking(ImageFull, missing))]
    /\ fnFrame

\* C14: a missing optional section is never fatal: without the static symbol
\* table, the dynamic symbol table, .rela.plt, .plt or the dynamic array,
\* construction completes, with the symbol view a placeholder when the static
\* symbol table is missing and the PLT catalog empty when a PLT input is.
C14_MissingSectionNotFatal ==
    probe.fn = "App_new" =>
        /\ ~probe.out.panic
        /\ "symtab" \in probe.in.missing
              => probe.out.symbol_page = EmptyPage_new
        /\ probe.in.missing \cap {"dynsym", "rela_plt", "plt"} # {}
              => probe.out.plt_page.content = << >>

\* ------------------------------------------------- static symbol catalog
\* Most symbols of a static symbol table the model builds a catalog from.
MaxSyms == 3

\* Symbols a static symbol table is made of: defined and undefined ones.
SymPool == {Sym("", 0, 0, TRUE), Sym("main", 4096, 4, FALSE),
            Sym("printf", 0, 0, TRUE), Sym("helper", 4100, 2, FALSE)}

SymTabs == UNION {[1..n -> SymPool] : n \in 0..MaxSyms}

Call_SymbolPage_new ==
    /\ probe = NoProbe
    /\ \E symtab \in SymTabs :
          probe' = [fn |-> "SymbolPage_new",
                    in |-> [symtab |-> symtab],
                    out |-> SymbolPage_new([ImageFull EXCEPT
                                               !.symtab = symtab])]
    /\ fnFrame

\* C15: the static-symbol catalog holds exactly the defined symbols of the
\* table, in table order (the k-th defined symbol of the table is entry k),
\* each with decoded = false, empty disassembly and vertical_scroll = 0; the
\* name list and the entry list have the same length and the k-th name is
\* the name of the k-th entry's symbol.
C15_DefinedSymbolsInOrder ==
    probe.fn = "SymbolPage_new" =>
        LET symtab == probe.in.symtab
            page == probe.out
            defined == {i \in 1..Len(symtab) : ~symtab[i].undefined}
        IN /\ Len(page.content) = Cardinality(defined)
           /\ Len(page.names) = Len(page.content)
           /\ \A i \in defined :
                 LET k == Cardinality({j \in defined : j <= i})
                 IN /\ page.names[k] = symtab[i].name
                    /\ page.content[k].address = symtab[i].st_value
                    /\ page.content[k].size = symtab[i].st_size
                    /\ page.content[k].decompiled = FALSE
                    /\ page.content[k].data = << >>
                    /\ page.content[k].vertical_scroll = 0

\* A table of three symbols, an undefined one between two different defined
\* ones, has been turned into a catalog of two entries.
C15_Witness ==
    /\ probe.fn = "SymbolPage_new"
    /\ Len(probe.in.symtab) = 3
    /\ ~probe.in.symtab[1].undefined
    /\ probe.in.symtab[2].undefined
    /\ ~probe.in.symtab[3].undefined
    /\ probe.in.symtab[1] # probe.in.symtab[3]
    /\ Len(probe.out.content) = 2

\* --------------------------------------------------------- symbol resolver
\* addr_to_symbol as the sequence of HashMap::insert calls, in call order.
\* HashMap::get: the value of the last insert under the key.
HashMap_get(map, key) ==
    LET hits == {i \in 1..Len(map) : map[i].key = key}
    IN IF hits = {} THEN None
       ELSE Some(map[CHOOSE i \in hits : \A j \in hits : j <= i].value)

\* MySymbolResolver::new with the PLT inserts made before the static ones.
MySymbolResolver_new_PltFirst(e) ==
    LET static == IF e.has_symtab
                  THEN [i \in 1..Len(e.symtab) |->
                           [key |-> e.symtab[i].st_value,
                            value |-> e.symtab[i].name]]
                  ELSE << >>
        plt == IF e.has_rela_plt /\ e.plt.present
               THEN [i \in 1..Len(e.rela_plt) |->
                        [key |-> e.plt.sh_addr + i * e.plt.sh_entsize,
                         value |-> e.dynsym[e.rela_plt[i] + 1] \o "@plt"]]
               ELSE << >>
    IN plt \o static

\* MySymbolResolver::new: every symbol of the static symbol table under its
\* st_value, then every PLT slot under its address as "<name>@plt".
MySymbolResolver_new(e) ==
    LET static == IF e.has_symtab
                  THEN [i \in 1..Len(e.symtab) |->
                           [key |-> e.symtab[i].st_value,
                            value |-> e.symtab[i].name]]
                  ELSE << >>
        plt == IF e.has_rela_plt /\ e.plt.present
               THEN [i \in 1..Len(e.rela_plt) |->
                        [key |-> e.plt.sh_addr + i * e.plt.sh_entsize,
                         value |-> e.dynsym[e.rela_plt[i] + 1] \o "@plt"]]
               ELSE << >>
    IN static \o plt

\* Instruction kinds the formatter asks the resolver about.
InstructionKinds == {"call_near", "call_far", "jmp", "jcc", "mov", "push"}
is_call_near(instruction) == instruction = "call_near"
is_call_far(instruction) == instruction = "call_far"

\* MySymbolResolver::symbol without the call filter.
MySymbolResolver_symbol_AnyInstruction(map, instruction, address) ==
    HashMap_get(map, address)

MySymbolResolver_symbol(map, instruction, address) ==
    IF ~(is_call_far(instruction) \/ is_call_near(instruction))
    THEN None
    ELSE HashMap_get(map, address)

\* Operand addresses: symbol addresses, PLT slots, and addresses of nothing.
ResolverAddrs == {0, 4096, 4098, 4100, 4128, 4144, 4160, 8192}

Call_MySymbolResolver_symbol ==
    /\ probe = NoProbe
    /\ \E e \in Images, instruction \in InstructionKinds,
          address \in ResolverAddrs :
          /\ ~MySymbolResolver_new_panics(e)
          /\ probe' = [fn |-> "MySymbolResolver_symbol",
                       in |-> [image |-> e, instruction |-> instruction,
                               address |-> address],
                       out |-> MySymbolResolver_symbol(
                                  MySymbolResolver_new(e), instruction,
                                  address)]
    /\ fnFrame

\* The keys of the resolver's address map built from image e.
ResolverKeys(e) ==
    {e.symtab[i].st_value : i \in 1..Len(e.symtab)}
       \cup {e.plt.sh_addr + i * e.plt.sh_entsize : i \in 1..Len(e.rela_plt)}

\* C16: the resolver returns a name only when the instruction is a near or a
\* far call and the address is a key of its address map; for every other
\* instruction kind it returns none, also for an address in the map.
C16_ResolverOnlyForCalls ==
    probe.fn = "MySymbolResolver_symbol" =>
        /\ is_some(probe.out) =>
              /\ probe.in.instruction \in {"call_near", "call_far"}
              /\ probe.in.address \in ResolverKeys(probe.in.image)
        /\ probe.in.instruction \notin {"call_near", "call_far"} =>
              probe.out = None

\* A jump to a PLT slot that is in the map resolved to nothing.
C16_Witness ==
    /\ probe.fn = "MySymbolResolver_symbol"
    /\ probe.in.instruction = "jmp"
    /\ probe.in.image = ImageFull
    /\ probe.in.address = 4144
    /\ probe.in.address \in ResolverKeys(probe.in.image)
    /\ probe.out = None

\* ------------------------------------------------------ string functions
starts_with(str, prefix) ==
    /\ Len(str) >= Len(prefix)
    /\ SubSeq(str, 1, Len(prefix)) = prefix

\* str::find: the 1-based position of the first occurrence, 0 for none.
str_find(str, pat) ==
    LET hits == {i \in 1..(Len(str) - Len(pat) + 1) :
                    SubSeq(str, i, i + Len(pat) - 1) = pat}
    IN IF hits = {} THEN 0
       ELSE CHOOSE i \in hits : \A j \in hits : i <= j

contains(str, pat) == str_find(str, pat) # 0

\* The first part of str.split(pat): the text before the first occurrence.
split_first(str, pat) ==
    IF contains(str, pat) THEN SubSeq(str, 1, str_find(str, pat) - 1)
    ELSE str

\* str.split(pat) as the sequence of its parts.
RECURSIVE split(_, _)
split(str, pat) ==
    IF contains(str, pat)
    THEN << split_first(str, pat) >>
         \o split(SubSeq(str, str_find(str, pat) + Len(pat), Len(str)), pat)
    ELSE << str >>

\* char::is_whitespace: the White_Space characters a string can hold here,
\* U+0009..U+000D, U+0020, U+0085 and U+00A0.
is_whitespace(c) ==
    c \in {" ", "\t", "\n", "", "\f", "\r", "", " "}

RECURSIVE trim_start(_)
trim_start(str) ==
    IF Len(str) > 0 /\ is_whitespace(SubSeq(str, 1, 1))
    THEN trim_start(SubSeq(str, 2, Len(str)))
    ELSE str

RECURSIVE trim_end(_)
trim_end(str) ==
    IF Len(str) > 0 /\ is_whitespace(SubSeq(str, Len(str), Len(str)))
    THEN trim_end(SubSeq(str, 1, Len(str) - 1))
    ELSE str

trim(str) == trim_end(trim_start(str))

\* [String]::join
RECURSIVE join(_, _)
join(parts, sep) ==
    IF parts = << >> THEN ""
    ELSE IF Len(parts) = 1 THEN parts[1]
    ELSE parts[1] \o sep \o join(Tail(parts), sep)

\* ------------------------------------------------------- dependencies page
\* The host the viewer runs on: std::env::consts::{OS, ARCH}.
Platforms == {[OS |-> "linux", ARCH |-> "x86_64"],
              [OS |-> "linux", ARCH |-> "aarch64"],
              [OS |-> "macos", ARCH |-> "x86_64"]}

\* LD_LIBRARY_PATH in the environment: unset, a string, or bytes that are
\* not Unicode.
LdLibraryPaths == {[set |-> FALSE, unicode |-> FALSE, value |-> ""],
                   [set |-> TRUE, unicode |-> TRUE, value |-> "/home/lib"],
                   [set |-> TRUE, unicode |-> FALSE, value |-> ""]}

\* std::env::var: Ok only for a variable that is set and valid Unicode.
env_var(env) == IF env.set /\ env.unicode THEN Some(env.value) ELSE None

\* Outputs of `<interpreter> --list <elf_path>`, as lines.
ListOutputs ==
    {<< >>,
     << "\tlinux-vdso.so.1 (0x00007ffd)" >>,
     << "\tlinux-vdso.so.1 (0x00007ffd)",
        "\tlibc.so.6 => /lib/x86_64-linux-gnu/libc.so.6 (0x00007f00)",
        "\tlibfoo.so => \f (0x00007f10)",
        "\t/lib64/ld-linux-x86-64.so.2 (0x00007f20)" >>}

\* Command::output: the spawn fails, or it gives the lines of stdout.
SpawnResults == {[ok |-> FALSE, lines |-> << >>]}
                   \cup {[ok |-> TRUE, lines |-> l] : l \in ListOutputs}

\* The loop body of get_actual_library_paths for one line of the output.
library_paths_insert(library_paths, line) ==
    IF contains(line, "=>")
    THEN LET parts == split(line, "=>")
         IN IF Len(parts) >= 2
            THEN LET lib_name == trim(parts[1])
                     lib_path == trim(split_first(parts[2], "("))
                 IN IF lib_path # ""
                    THEN Append(library_paths,
                                [key |-> lib_name, value |-> lib_path])
                    ELSE library_paths
            ELSE library_paths
    ELSE library_paths

RECURSIVE library_paths_of(_, _)
library_paths_of(library_paths, lines) ==
    IF lines = << >> THEN library_paths
    ELSE library_paths_of(library_paths_insert(library_paths, Head(lines)),
                          Tail(lines))

\* The resolved-path map, as the sequence of its inserts.
get_actual_library_paths(platform, interpreter, spawn) ==
    IF platform.OS # "linux" THEN << >>
    ELSE IF platform.ARCH # "x86_64" THEN << >>
    ELSE IF is_some(interpreter) /\ spawn.ok
    THEN library_paths_of(<< >>, spawn.lines)
    ELSE << >>

\* is_critical_library without the "ld-linux" prefix.
is_critical_library_NoLdLinux(name) ==
    \E lib \in {"libc.so", "libstdc++.so", "libgcc_s.so"} :
        starts_with(name, lib)

is_critical_library(name) ==
    \E lib \in {"libc.so", "libstdc++.so", "libgcc_s.so", "ld-linux"} :
        starts_with(name, lib)

\* get_search_path with LD_LIBRARY_PATH pushed before the RPATH.
get_search_path_EnvFirst(name, rpath, env) ==
    join((IF is_some(env_var(env)) THEN << unwrap(env_var(env)) >>
          ELSE << >>)
         \o (IF is_some(rpath) THEN << unwrap(rpath) >> ELSE << >>)
         \o << "/lib", "/usr/lib", "/lib64", "/usr/lib64" >>, ":")

get_search_path(name, rpath, env) ==
    join((IF is_some(rpath) THEN << unwrap(rpath) >> ELSE << >>)
         \o (IF is_some(env_var(env)) THEN << unwrap(env_var(env)) >>
             ELSE << >>)
         \o << "/lib", "/usr/lib", "/lib64", "/usr/lib64" >>, ":")

\* A dynamic array entry: its tag and what dynstr.get(d_val) gives, None for
\* an offset the string table cannot read.
Dyn(d_tag, str) == [d_tag |-> d_tag, str |-> str]

\* dynamic.iter().find(|d| d.d_tag == DT_RPATH) and the read of its string.
find_rpath(dynamic) ==
    LET hits == {i \in 1..Len(dynamic) : dynamic[i].d_tag = "DT_RPATH"}
    IN IF hits = {} THEN None
       ELSE dynamic[CHOOSE i \in hits : \A j \in hits : i <= j].str

\* DependenciesPage::new.  dynamic is None or Some(array); the string table
\* is the one App::new passes, always present.
DependenciesPage_new(dynamic, platform, interpreter, spawn, env) ==
    LET actual_paths == get_actual_library_paths(platform, interpreter, spawn)
        can_show_actual_paths == actual_paths # << >>
        rpath == IF is_some(dynamic) THEN find_rpath(unwrap(dynamic))
                 ELSE None
        entries == IF is_some(dynamic)
                   THEN SelectSeq(unwrap(dynamic),
                           LAMBDA d : d.d_tag = "DT_NEEDED" /\ is_some(d.str))
                   ELSE << >>
        needed == [i \in 1..Len(entries) |->
                     LET name == unwrap(entries[i].str)
                     IN [name |-> name,
                         is_critical |-> is_critical_library(name),
                         search_path |-> get_search_path(name, rpath, env),
                         actual_path |->
                            IF can_show_actual_paths
                            THEN IF is_some(HashMap_get(actual_paths, name))
                                 THEN unwrap(HashMap_get(actual_paths, name))
                                 ELSE "Not found"
                            ELSE "Not available on current platform"]]
    IN [rpath |-> rpath,
        needed |-> needed,
        list |-> [i \in 1..Len(needed) |->
                     IF needed[i].is_critical THEN "* " \o needed[i].name
                     ELSE needed[i].name],
        state |-> None,
        actual_paths |-> actual_paths]

\* Most entries of a dynamic array the model builds a dependency list from.
MaxDyn == 3

DynPool == {Dyn("DT_NEEDED", Some("libc.so.6")),
            Dyn("DT_NEEDED", Some("libm.so.6")),
            Dyn("DT_NEEDED", Some("ld-linux-x86-64.so.2")),
            Dyn("DT_NEEDED", None),
            Dyn("DT_RPATH", Some("/opt/lib")),
            Dyn("DT_RPATH", Some("/usr/local/lib")),
            Dyn("DT_SONAME", Some("libself.so"))}

DynArrays == UNION {[1..n -> DynPool] : n \in 0..MaxDyn}

Interpreters == {None, Some("/lib64/ld-linux-x86-64.so.2")}

Call_DependenciesPage_new ==
    /\ probe = NoProbe
    /\ \E dynamic \in {None} \cup {Some(d) : d \in DynArrays},
          platform \in Platforms, interpreter \in Interpreters,
          spawn \in SpawnResults, env \in LdLibraryPaths :
          probe' = [fn |-> "DependenciesPage_new",
                    in |-> [dynamic |-> dynamic, platform |-> platform,
                            interpreter |-> interpreter, spawn |-> spawn,
                            env |-> env],
                    out |-> DependenciesPage_new(dynamic, platform,
                                                 interpreter, spawn, env)]
    /\ fnFrame

\* The dynamic array of the call, empty when the image has none.
ProbeDynamic ==
    IF is_some(probe.in.dynamic) THEN unwrap(probe.in.dynamic) ELSE << >>

RpathEntries == {i \in 1..Len(ProbeDynamic) :
                    ProbeDynamic[i].d_tag = "DT_RPATH"}

\* C17: with DT_RPATH = R (or none) and LD_LIBRARY_PATH = L (or unset) the
\* search path of every dependency entry is the ':'-join of [R if present,
\* L if set, "/lib", "/usr/lib", "/lib64", "/usr/lib64"], wherever the
\* DT_RPATH entry stands relative to the DT_NEEDED entries.
C17_SearchPath ==
    (/\ probe.fn = "DependenciesPage_new"
     /\ Cardinality(RpathEntries) <= 1
     /\ probe.in.env.set => probe.in.env.unicode) =>
        LET defaults == "/lib:/usr/lib:/lib64:/usr/lib64"
            withL == IF probe.in.env.set
                     THEN probe.in.env.value \o ":" \o defaults
                     ELSE defaults
            expected == IF RpathEntries = {} THEN withL
                        ELSE unwrap(ProbeDynamic[CHOOSE i \in RpathEntries :
                                                    TRUE].str)
                                \o ":" \o withL
        IN /\ \A k \in 1..Len(probe.out.needed) :
                 probe.out.needed[k].search_path = expected
           /\ (RpathEntries # {} /\ ~probe.in.env.set
               /\ ProbeDynamic[CHOOSE i \in RpathEntries : TRUE].str
                     = Some("/opt/lib")) =>
                 \A k \in 1..Len(probe.out.needed) :
                    probe.out.needed[k].search_path
                       = "/opt/lib:/lib:/usr/lib:/lib64:/usr/lib64"

\* A DT_RPATH entry that stands between two DT_NEEDED entries, with
\* LD_LIBRARY_PATH set: both dependencies carry R:L:defaults.
C17_Witness ==
    /\ probe.fn = "DependenciesPage_new"
    /\ Len(ProbeDynamic) = 3
    /\ ProbeDynamic[1].d_tag = "DT_NEEDED"
    /\ ProbeDynamic[2] = Dyn("DT_RPATH", Some("/opt/lib"))
    /\ ProbeDynamic[3].d_tag = "DT_NEEDED"
    /\ probe.in.env.set /\ probe.in.env.unicode
    /\ Len(probe.out.needed) = 2
    /\ probe.out.needed[1].search_path
          = "/opt/lib:/home/lib:/lib:/usr/lib:/lib64:/usr/lib64"
    /\ probe.out.needed[2].search_path
          = "/opt/lib:/home/lib:/lib:/usr/lib:/lib64:/usr/lib64"

\* Library names is_critical_library is asked about.
LibraryNames == {"libc.so.6", "libc.so", "libm.so.6", "libfoo.so",
                 "libstdc++.so.6", "libgcc_s.so.1", "ld-linux-x86-64.so.2",
                 "ld-linux", "libc-2.31.so", "libcrypto.so.3", "xlibc.so.6",
                 "libc.s", ""}

Call_is_critical_library ==
    /\ probe = NoProbe
    /\ \E name \in LibraryNames :
          probe' = [fn |-> "is_critical_library",
                    in |-> [name |-> name],
                    out |-> is_critical_library(name)]
    /\ fnFrame

\* The name begins with one of the four critical prefixes.
HasCriticalPrefix(name) ==
    \/ Len(name) >= 7 /\ SubSeq(name, 1, 7) = "libc.so"
    \/ Len(name) >= 12 /\ SubSeq(name, 1, 12) = "libstdc++.so"
    \/ Len(name) >= 11 /\ SubSeq(name, 1, 11) = "libgcc_s.so"
    \/ Len(name) >= 8 /\ SubSeq(name, 1, 8) = "ld-linux"

ReadableNeeded == {i \in 1..Len(ProbeDynamic) :
                      /\ ProbeDynamic[i].d_tag = "DT_NEEDED"
                      /\ is_some(ProbeDynamic[i].str)}

\* C18: the dependency list has one entry per readable DT_NEEDED entry, in
\* dynamic-array order, and an entry's critical flag is true if and only if
\* its name starts with "libc.so", "libstdc++.so", "libgcc_s.so" or
\* "ld-linux" (libc.so.6 critical, libm.so.6 and libfoo.so not).
C18_CriticalFlag ==
    /\ probe.fn = "DependenciesPage_new" =>
          /\ Len(probe.out.needed) = Cardinality(ReadableNeeded)
          /\ \A i \in ReadableNeeded :
                LET k == Cardinality({j \in ReadableNeeded : j <= i})
                    name == unwrap(ProbeDynamic[i].str)
                IN /\ probe.out.needed[k].name = name
                   /\ probe.out.needed[k].is_critical
                         <=> HasCriticalPrefix(name)
                   /\ name = "libc.so.6" => probe.out.needed[k].is_critical
                   /\ name = "libm.so.6" => ~probe.out.needed[k].is_critical
    /\ probe.fn = "is_critical_library" =>
          /\ probe.out <=> HasCriticalPrefix(probe.in.name)
          /\ probe.in.name = "libc.so.6" => probe.out
          /\ probe.in.name \in {"libm.so.6", "libfoo.so"} => ~probe.out

\* libc.so.6, an unreadable DT_NEEDED and libm.so.6 gave two entries, the
\* first critical and the second not.
C18_Witness ==
    /\ probe.fn = "DependenciesPage_new"
    /\ ProbeDynamic = << Dyn("DT_NEEDED", Some("libc.so.6")),
                         Dyn("DT_NEEDED", None),
                         Dyn("DT_NEEDED", Some("libm.so.6")) >>
    /\ Len(probe.out.needed) = 2
    /\ probe.out.needed[1].is_critical
    /\ ~probe.out.needed[2].is_critical

\* C19: on a supported platform (Linux, x86-64) a dependency whose name is a
\* key of the resolved-path map shows that path and every other dependency
\* shows "Not found", also when the probe failed or gave an empty map; every
\* entry shows "Not available on current platform" exactly when the platform
\* is unsupported.
C19_ResolvedPathLabel ==
    probe.fn = "DependenciesPage_new" =>
        LET supported == /\ probe.in.platform.OS = "linux"
                         /\ probe.in.platform.ARCH = "x86_64"
        IN \A k \in 1..Len(probe.out.needed) :
              LET entry == probe.out.needed[k]
                  resolved == HashMap_get(probe.out.actual_paths, entry.name)
              IN IF ~supported
                 THEN entry.actual_path = "Not available on current platform"
                 ELSE IF is_some(resolved)
                 THEN entry.actual_path = unwrap(resolved)
                 ELSE entry.actual_path = "Not found"

\* ------------------------------------------------------ executable lookup
\* A regular file: its bytes as text, and whether the bytes of its first
\* line are valid UTF-8.
File(bytes, first_line_utf8) ==
    [bytes |-> bytes, first_line_utf8 |-> first_line_utf8, is_dir |-> FALSE]

\* A directory: it exists and fs::read fails on it.
Directory == [bytes |-> "", first_line_utf8 |-> TRUE, is_dir |-> TRUE]

FilePaths == {"/usr/bin/env", "/usr/bin/python3", "/usr/local/bin/tool",
              "/usr/bin/tool", "script", "/usr/bin/loop", "/usr/bin/bare",
              "/usr/bin/blank", "/usr/bin/raw", "/usr/local/bin/python3"}

\* The content each path has in a file system that holds it.
FileAt(path) ==
    CASE path = "/usr/bin/env" -> File("ELF env", TRUE)
      [] path = "/usr/bin/python3" -> File("ELF python3", TRUE)
      [] path = "/usr/local/bin/tool" ->
            File("#!/usr/bin/env python3\nimport sys\n", TRUE)
      [] path = "/usr/bin/tool" -> File("ELF tool", TRUE)
      [] path = "script" -> File("#!/bin/sh\necho hi\n", TRUE)
      [] path = "/usr/bin/loop" -> File("#!loop\n", TRUE)
      [] path = "/usr/bin/bare" -> File("#! python3 -u\n", TRUE)
      [] path = "/usr/bin/blank" -> File("#! \t\f\nrest", TRUE)
      [] path = "/usr/local/bin/python3" -> Directory
      [] OTHER -> File("#!/usr/bin/env raw\n", FALSE)

\* File systems: the files and directories under any subset of the paths.
FileSystems == {[p \in present |-> FileAt(p)] : present \in SUBSET FilePaths}

\* PATH in the environment: unset or a ':'-separated list, which may hold an
\* empty entry.
PathVars == {None, Some("/usr/local/bin:/usr/bin"),
             Some(":/usr/bin:/usr/local/bin")}

\* Command-line arguments.
NameArgs == {"tool", "script", "loop", "bare", "blank", "raw",
             "python3", "/usr/bin/env", "/usr/bin/tool", "./tool",
             "bin/tool", "nothing", "/usr/local/bin/python3"}

exists(fs, path) == path \in DOMAIN fs
is_absolute(path) == starts_with(path, "/")

\* Path::components().count(): the root, and every part that is not empty
\* and not a "." after the first.
components_count(path) ==
    LET parts == split(path, "/")
    IN (IF is_absolute(path) THEN 1 ELSE 0)
       + Cardinality({i \in 1..Len(parts) :
                         parts[i] # "" /\ (parts[i] # "." \/ i = 1)})

\* PathBuf::join of a directory and a bare name.
path_join(dir, name) ==
    IF dir = "" THEN name
    ELSE IF SubSeq(dir, Len(dir), Len(dir)) = "/" THEN dir \o name
    ELSE dir \o "/" \o name

split_paths(paths) == split(paths, ":")

\* The first part of split_whitespace on a trimmed, non-empty string.
RECURSIVE first_word(_)
first_word(str) ==
    IF Len(str) = 0 \/ is_whitespace(SubSeq(str, 1, 1)) THEN ""
    ELSE SubSeq(str, 1, 1) \o first_word(SubSeq(str, 2, Len(str)))

\* shebang_interpreter taking the whole first line as the interpreter path.
shebang_interpreter_WholeLine(file) ==
    LET buffer == file.bytes
    IN IF Len(buffer) > 2 /\ SubSeq(buffer, 1, 1) = "#"
          /\ SubSeq(buffer, 2, 2) = "!"
       THEN LET first_line == split_first(SubSeq(buffer, 3, Len(buffer)),
                                          "\n")
            IN IF file.first_line_utf8
               THEN LET interpreter == trim(first_line)
                    IN IF interpreter # "" THEN Some(interpreter)
                       ELSE None
               ELSE None
       ELSE None

\* The shebang check of find_executable: the interpreter path to recurse
\* on, or None when the file is returned as it is.
shebang_interpreter(file) ==
    LET buffer == file.bytes
    IN IF Len(buffer) > 2 /\ SubSeq(buffer, 1, 1) = "#"
          /\ SubSeq(buffer, 2, 2) = "!"
       THEN LET first_line == split_first(SubSeq(buffer, 3, Len(buffer)),
                                          "\n")
            IN IF file.first_line_utf8
               THEN LET interpreter == trim(first_line)
                    IN IF interpreter # "" THEN Some(first_word(interpreter))
                       ELSE None
               ELSE None
       ELSE None

Found(path, buffer) == [kind |-> "Ok", path |-> path, buffer |-> buffer]
NotFound(message) == [kind |-> "Err", error |-> "NotFound",
                      message |-> message]
\* The error of fs::read on a path that exists and cannot be read as a file.
ReadError == [kind |-> "Err", error |-> "IsADirectory"]
StackOverflow == [kind |-> "stack overflow"]

\* fs::read(path)? on a path that exists: the bytes, or the error the
\* function returns with.
fs_read(fs, path) ==
    IF fs[path].is_dir THEN ReadError ELSE Found(path, fs[path].bytes)

\* find_executable with depth calls of stack left.
RECURSIVE find_executable_from(_, _, _, _)
find_executable_from(fs, PATH, name, depth) ==
    IF depth = 0 THEN StackOverflow
    ELSE IF exists(fs, name) THEN fs_read(fs, name)
    ELSE IF is_absolute(name) \/ components_count(name) > 1
    THEN NotFound("File not found")
    ELSE LET dirs == IF is_some(PATH) THEN split_paths(unwrap(PATH))
                     ELSE << >>
             hits == {i \in 1..Len(dirs) :
                         exists(fs, path_join(dirs[i], name))}
         IN IF hits = {} THEN NotFound("Executable not found in PATH")
            ELSE LET first == CHOOSE i \in hits : \A j \in hits : i <= j
                     full_path == path_join(dirs[first], name)
                     interpreter_path == shebang_interpreter(fs[full_path])
                 IN IF fs[full_path].is_dir THEN ReadError
                    ELSE IF is_some(interpreter_path)
                    THEN find_executable_from(fs, PATH,
                                              unwrap(interpreter_path),
                                              depth - 1)
                    ELSE Found(full_path, fs[full_path].bytes)

\* find_executable.  A chain of interpreters longer than the number of files
\* plus one repeats a name, and the recursion never returns: the stack
\* overflows.
find_executable(fs, PATH, name) ==
    find_executable_from(fs, PATH, name, Cardinality(DOMAIN fs) + 2)

Call_find_executable ==
    /\ probe = NoProbe
    /\ \E fs \in FileSystems, PATH \in PathVars, name \in NameArgs :
          probe' = [fn |-> "find_executable",
                    in |-> [fs |-> fs, PATH |-> PATH, name |-> name],
                    out |-> find_executable(fs, PATH, name)]
    /\ fnFrame

\* The directories of PATH in the call, in order.
ProbeDirs ==
    IF is_some(probe.in.PATH) THEN split(unwrap(probe.in.PATH), ":")
    ELSE << >>

IsBareName(name) == ~contains(name, "/")

\* The entries of PATH under which name is present in the file system.
MatchesOf(fs, dirs, name) ==
    {i \in 1..Len(dirs) :
        /\ dirs[i] # ""
        /\ (dirs[i] \o "/" \o name) \in DOMAIN fs}

\* The first existing match of name in PATH order.
MatchOf(fs, dirs, name) ==
    LET hits == MatchesOf(fs, dirs, name)
    IN dirs[CHOOSE i \in hits : \A j \in hits : i <= j] \o "/" \o name

\* The part of s before its first line feed.
LineBefore(s) ==
    LET n == CHOOSE k \in 0..Len(s) :
                /\ \A i \in 1..k : SubSeq(s, i, i) # "\n"
                /\ k = Len(s) \/ SubSeq(s, k + 1, k + 1) = "\n"
    IN SubSeq(s, 1, n)

\* The first maximal run of characters of line that are not white space, ""
\* when there is none.
FirstToken(line) ==
    LET ink == {i \in 1..Len(line) : ~is_whitespace(SubSeq(line, i, i))}
    IN IF ink = {} THEN ""
       ELSE LET a == CHOOSE i \in ink : \A j \in ink : i <= j
                b == CHOOSE k \in a..Len(line) :
                        /\ \A i \in a..k : i \in ink
                        /\ (k + 1) \notin ink
            IN SubSeq(line, a, b)

\* The first token of the first line of a file, after its "#!".
ShebangToken(file) ==
    FirstToken(LineBefore(SubSeq(file.bytes, 3, Len(file.bytes))))

\* The lookup of name goes on with an interpreter: name is a bare name that
\* does not exist as given and its first PATH match starts with "#!".  As
\* the claim is stated this is all; in the amended claim the match is also a
\* file whose first line is valid UTF-8 and has a token.
Follows(fs, dirs, name, stated) ==
    /\ name \notin DOMAIN fs
    /\ IsBareName(name)
    /\ MatchesOf(fs, dirs, name) # {}
    /\ LET file == fs[MatchOf(fs, dirs, name)]
       IN /\ starts_with(file.bytes, "#!")
          /\ stated \/ (/\ ~file.is_dir
                        /\ file.first_line_utf8
                        /\ ShebangToken(file) # "")

\* The k-th name of the chain of interpreters that starts at name.
RECURSIVE InterpreterChain(_, _, _, _)
InterpreterChain(fs, dirs, name, k) ==
    IF k = 0 THEN name
    ELSE ShebangToken(fs[MatchOf(fs, dirs,
                                 InterpreterChain(fs, dirs, name, k - 1))])

\* out is the result of a lookup of name that ends without an interpreter:
\* the path that exists, or the first PATH match, with its bytes (the read
\* error for a directory in the amended claim), or a not-found error.
EndsWith(out, fs, dirs, name, stated) ==
    LET Read(path) == IF ~stated /\ fs[path].is_dir THEN out = ReadError
                      ELSE out = Found(path, fs[path].bytes)
    IN IF name \in DOMAIN fs THEN Read(name)
       ELSE IF ~IsBareName(name) \/ MatchesOf(fs, dirs, name) = {}
       THEN out.kind = "Err" /\ out.error = "NotFound"
       ELSE Read(MatchOf(fs, dirs, name))

\* The lookup of the call, said with the chain of interpreters: the result is
\* the end of the chain at the first name that has no interpreter to go on
\* with; a chain that comes back to one of its names never ends, and the
\* call does not return.  A script with "#!/usr/bin/env python3" in front of
\* PATH gives /usr/bin/env with its bytes.  A returned buffer is the content
\* of the returned path.
ExecutableLookup(stated) ==
    LET fs == probe.in.fs
        dirs == ProbeDirs
        name == probe.in.name
        out == probe.out
        Nth(k) == InterpreterChain(fs, dirs, name, k)
        Followed(k) == \A j \in 0..(k - 1) : Follows(fs, dirs, Nth(j), stated)
        MaxChain == Cardinality(DOMAIN fs) + 1
    IN /\ \A k \in 0..MaxChain :
             (Followed(k) /\ ~Follows(fs, dirs, Nth(k), stated)) =>
                 EndsWith(out, fs, dirs, Nth(k), stated)
       /\ (\E k \in 1..MaxChain :
              /\ Followed(k)
              /\ \E j \in 0..(k - 1) : Nth(j) = Nth(k)) =>
                 out = StackOverflow
       /\ (/\ name \notin DOMAIN fs /\ IsBareName(name)
           /\ MatchesOf(fs, dirs, name) # {}
           /\ starts_with(fs[MatchOf(fs, dirs, name)].bytes,
                          "#!/usr/bin/env python3\n")
           /\ "/usr/bin/env" \in DOMAIN fs) =>
                 out = Found("/usr/bin/env", fs["/usr/bin/env"].bytes)
       /\ out.kind = "Ok" =>
             /\ out.path \in DOMAIN fs
             /\ stated \/ ~fs[out.path].is_dir
             /\ out.buffer = fs[out.path].bytes

\* C20 as stated: an argument path that exists is returned with its bytes,
\* shebang or not; otherwise, only for a bare non-absolute name, the PATH
\* entries are searched in order and the first existing match is taken; a
\* match that starts with "#!" makes the loader recurse on the first token of
\* its first line, the result being the path and bytes of that interpreter;
\* with no match the result is a not-found error.  A returned buffer is the
\* content of the returned path.
C20_ExecutableLookup ==
    probe.fn = "find_executable" => ExecutableLookup(TRUE)

\* C20 (amended): an argument path that exists and can be read is returned
\* with its bytes, shebang or not, and one that is a directory gives the
\* read error; otherwise, only for a bare non-absolute name, the PATH
\* entries are searched in order and the first existing match is taken; a
\* match that is a directory ends the search with the read error; a match
\* that starts with "#!", whose first line is valid UTF-8 and has a token,
\* makes the loader recurse on that token, the result being the result for
\* that interpreter, and the call never returns when the interpreters come
\* back to a name already looked up; a "#!" match whose first line is not
\* valid UTF-8 or has no token is returned itself with its bytes, as a match
\* without "#!" is; with no match the result is a not-found error.  A
\* returned buffer is the content of the returned path, which is a file.
C20_ExecutableLookupReadable ==
    probe.fn = "find_executable" => ExecutableLookup(FALSE)

\* The bare name tool was found in the first PATH directory as a script with
\* "#!/usr/bin/env python3", and the result is /usr/bin/env with its bytes,
\* although a native /usr/bin/tool stands later in PATH.
C20_Witness ==
    /\ probe.fn = "find_executable"
    /\ probe.in.name = "tool"
    /\ probe.in.PATH = Some("/usr/local/bin:/usr/bin")
    /\ {"/usr/local/bin/tool", "/usr/bin/tool", "/usr/bin/env"}
          \subseteq DOMAIN probe.in.fs
    /\ probe.out = Found("/usr/bin/env", "ELF env")

\* C22: with more than one DT_RPATH entry in the dynamic array, the rpath
\* recorded by the dependencies page, and used in every entry's search path,
\* is the string of the last DT_RPATH entry in array order.
C22_LastRpathWins ==
    (probe.fn = "DependenciesPage_new" /\ Cardinality(RpathEntries) > 1) =>
        LET last == ProbeDynamic[CHOOSE i \in RpathEntries :
                                    \A j \in RpathEntries : j <= i].str
        IN /\ probe.out.rpath = last
           /\ \A k \in 1..Len(probe.out.needed) :
                 starts_with(probe.out.needed[k].search_path,
                             unwrap(last) \o ":")

\* The number of instructions that lie whole inside code from pos on.
RECURSIVE CompleteInstructions(_, _)
CompleteInstructions(code, pos) ==
    IF pos > Len(code) THEN 0
    ELSE IF InsnLen(code[pos]) > Len(code) - pos + 1 THEN 0
    ELSE 1 + CompleteInstructions(code, pos + InsnLen(code[pos]))

\* C25: for an in-range request the output is one line per successfully
\* decoded instruction, in address order, the first at A; an instruction cut
\* by the end of the slice produces no line.
C25_TruncatedDropped ==
    (/\ probe.fn = "decompile_symbol"
     /\ ~probe.out.panic
     /\ probe.in.size >= 0
     /\ ~u64_lt(probe.in.address, probe.in.image.text.sh_addr)
     /\ ~u64_sum_gt(probe.in.address, probe.in.size,
                    probe.in.image.text.sh_addr,
                    probe.in.image.text.sh_size)) =>
        LET text == probe.in.image.text
            offset == probe.in.address - text.sh_addr
            code == SubSeq(text.bytes, offset + 1, offset + probe.in.size)
            lines == probe.out.lines
        IN /\ Len(lines) = CompleteInstructions(code, 1)
           /\ lines # << >> => lines[1].address = probe.in.address
           /\ \A i, j \in 1..Len(lines) :
                 i < j => lines[i].address < lines[j].address

\* ------------------------------------------------- resolver construction
\* Static symbols that share an address, and one at the first PLT slot.
CollidingSyms == {Sym("first", 4096, 4, FALSE), Sym("second", 4096, 2, FALSE),
                  Sym("stub", 4144, 0, FALSE), Sym("printf", 0, 0, TRUE)}

CollidingSymTabs == UNION {[1..n -> CollidingSyms] : n \in 0..MaxSyms}

Call_MySymbolResolver_new ==
    /\ probe = NoProbe
    /\ \E symtab \in CollidingSymTabs :
          LET e == [ImageFull EXCEPT !.symtab = symtab]
          IN /\ ~MySymbolResolver_new_panics(e)
             /\ probe' = [fn |-> "MySymbolResolver_new",
                          in |-> [image |-> e],
                          out |-> [map |-> MySymbolResolver_new(e),
                                   page |-> PLTPage_new(e)]]
    /\ fnFrame

\* The static symbols and the PLT relocations of the call that stand at
\* address a.
StaticAt(a) ==
    {i \in 1..Len(probe.in.image.symtab) :
        probe.in.image.symtab[i].st_value = a}

PltAt(a) ==
    {i \in 1..Len(probe.in.image.rela_plt) :
        probe.in.image.plt.sh_addr + i * probe.in.image.plt.sh_entsize = a}

Last(S) == CHOOSE i \in S : \A j \in S : j <= i

\* C21: the address map holds, for each address, the name of the last static
\* symbol in table order with that st_value, except that a synthesized PLT
\* entry "<name>@plt" at the same address wins; the PLT addresses in the map
\* are the addresses of the PLT catalog's entries.
C21_ResolverTieBreak ==
    probe.fn = "MySymbolResolver_new" =>
        LET e == probe.in.image
            map == probe.out.map
        IN /\ \A a \in ResolverAddrs :
                 HashMap_get(map, a) =
                    IF PltAt(a) # {}
                    THEN Some(e.dynsym[e.rela_plt[Last(PltAt(a))] + 1]
                                 \o "@plt")
                    ELSE IF StaticAt(a) # {}
                    THEN Some(e.symtab[Last(StaticAt(a))].name)
                    ELSE None
           /\ {map[k].key : k \in (Len(e.symtab) + 1)..Len(map)}
                 = {probe.out.page.content[i].address :
                       i \in 1..Len(probe.out.page.content)}

\* Two static symbols at 0x1000 and a static symbol at the first PLT slot:
\* the later static name and the PLT name are the ones in the map.
C21_Witness ==
    /\ probe.fn = "MySymbolResolver_new"
    /\ probe.in.image.symtab
          = << Sym("first", 4096, 4, FALSE), Sym("second", 4096, 2, FALSE),
               Sym("stub", 4144, 0, FALSE) >>
    /\ HashMap_get(probe.out.map, 4096) = Some("second")
    /\ HashMap_get(probe.out.map, 4144) = Some("printf@plt")

NextFn ==
    \/ Call_PLTPage_new
    \/ Call_decompile_symbol
    \/ Call_App_new
    \/ Call_SymbolPage_new
    \/ Call_MySymbolResolver_symbol
    \/ Call_DependenciesPage_new
    \/ Call_is_critical_library
    \/ Call_find_executable
    \/ Call_MySymbolResolver_new

SpecFn == InitFn /\ [][NextFn]_vars
====
